---- MODULE Spec2Model ----
(***************************************************************************)
(* A model of the TyrtLang interpreter (src/TyrtLang.py).                  *)
(*                                                                         *)
(* Script lines and expressions are TLA+ strings, handled character by     *)
(* character the way the Python code handles them (strip, startswith,      *)
(* split, the regular expressions).  Python objects with identity (the     *)
(* line buffers, sequences, mappings, instances) live in a heap and are    *)
(* named by their address, so that two names for one list stay aliased.    *)
(* Every method of the interpreter is an operator from a machine state to  *)
(* a result: the machine state after the call, the exception that left it  *)
(* (NoExc when it returned), and the returned value.                       *)
(***************************************************************************)
EXTENDS Integers, Sequences, FiniteSets, TLC

VARIABLES
  source_lines,          \* run: the lines of the script
  self,                  \* the attributes of the TyrtLangInterpreter object
  heap,                  \* the Python objects with identity, by address
  out,                   \* the values written by print(), in order
  _current_line_number,  \* self._current_line_number
  status,                \* where run() is: "running", or how it ended
  error                  \* the exception run() reported (NoExc when none)

vars == <<source_lines, self, heap, out, _current_line_number, status, error>>

(***************************************************************************)
(* Python str operations                                                   *)
(***************************************************************************)
Digits == "0123456789"
WordChars == "abcdefghijklmnopqrstuvwxyzABCDEFGHIJKLMNOPQRSTUVWXYZ0123456789_"

\* s[i:j] with 1-based inclusive bounds; "" when the range is empty
Sub(s, i, j) == IF i > j THEN "" ELSE SubSeq(s, i, j)

\* s[i] as a one-character string, for i in 1..Len(s)
At(s, i) == SubSeq(s, i, i)

\* s[i:i+1]: s[i], or "" past the end of s
CharAt(s, i) == IF i > Len(s) THEN "" ELSE SubSeq(s, i, i)

\* s[i:] from position i (1-based) to the end
From(s, i) == Sub(s, i, Len(s))

\* str.startswith
StartsWith(s, p) == Len(s) >= Len(p) /\ Sub(s, 1, Len(p)) = p

\* str.endswith
EndsWith(s, p) == Len(s) >= Len(p) /\ Sub(s, Len(s) - Len(p) + 1, Len(s)) = p

\* whether p occurs in s at position i
OccursAt(s, p, i) == i >= 1 /\ i + Len(p) - 1 <= Len(s) /\ Sub(s, i, i + Len(p) - 1) = p

\* str.find, 1-based; 0 when p does not occur in s
Find(s, p) ==
  LET hits == {i \in 1..Len(s) : OccursAt(s, p, i)}
  IN IF hits = {} THEN 0 ELSE CHOOSE i \in hits : \A j \in hits : i <= j

\* str.rfind, 1-based; 0 when p does not occur in s
RFind(s, p) ==
  LET hits == {i \in 1..Len(s) : OccursAt(s, p, i)}
  IN IF hits = {} THEN 0 ELSE CHOOSE i \in hits : \A j \in hits : i >= j

\* p in s
Contains(s, p) == Find(s, p) > 0

\* the class of whitespace characters (str.strip, \s)
IsSpace(c) == c = " "

\* \d
IsDigit(c) == Len(c) = 1 /\ Contains(Digits, c)

\* \w
IsWordChar(c) == Len(c) = 1 /\ Contains(WordChars, c)

\* the length of the longest prefix of s, from position i, of characters in class
RECURSIVE SpanSpace(_, _)
SpanSpace(s, i) == IF i <= Len(s) /\ IsSpace(At(s, i)) THEN SpanSpace(s, i + 1) ELSE i

RECURSIVE SpanWord(_, _)
SpanWord(s, i) == IF i <= Len(s) /\ IsWordChar(At(s, i)) THEN SpanWord(s, i + 1) ELSE i

RECURSIVE SpanDigit(_, _)
SpanDigit(s, i) == IF i <= Len(s) /\ IsDigit(At(s, i)) THEN SpanDigit(s, i + 1) ELSE i

\* the last position of s that is not whitespace (0 when there is none)
RECURSIVE LastNonSpace(_, _)
LastNonSpace(s, j) == IF j >= 1 /\ IsSpace(At(s, j)) THEN LastNonSpace(s, j - 1) ELSE j

\* str.strip()
Strip(s) == Sub(s, SpanSpace(s, 1), LastNonSpace(s, Len(s)))

\* str.strip('"'): every leading and trailing double quote removed
RECURSIVE StripQuotes(_)
StripQuotes(s) ==
  IF Len(s) > 0 /\ At(s, 1) = "\"" THEN StripQuotes(From(s, 2))
  ELSE IF Len(s) > 0 /\ At(s, Len(s)) = "\"" THEN StripQuotes(Sub(s, 1, Len(s) - 1))
  ELSE s

\* str.split(sep): the pieces of s between the occurrences of sep
RECURSIVE Split(_, _)
Split(s, sep) ==
  LET k == Find(s, sep)
  IN IF k = 0 THEN <<s>>
     ELSE <<Sub(s, 1, k - 1)>> \o Split(From(s, k + Len(sep)), sep)

\* str.split(sep, 1): s cut at the first sep, or s alone
Split1(s, sep) ==
  LET k == Find(s, sep)
  IN IF k = 0 THEN <<s>> ELSE <<Sub(s, 1, k - 1), From(s, k + Len(sep))>>

\* str.rsplit(sep, 1): s cut at the last sep, or s alone
RSplit1(s, sep) ==
  LET k == RFind(s, sep)
  IN IF k = 0 THEN <<s>> ELSE <<Sub(s, 1, k - 1), From(s, k + Len(sep))>>

\* [a.strip() for a in s.split(',') if a.strip()]
RECURSIVE StripNonEmpty(_)
StripNonEmpty(parts) ==
  IF parts = <<>> THEN <<>>
  ELSE LET a == Strip(Head(parts))
       IN (IF a = "" THEN <<>> ELSE <<a>>) \o StripNonEmpty(Tail(parts))

SplitArgs(s) == StripNonEmpty(Split(s, ","))

\* int(s) for a string of decimal digits
RECURSIVE DigitsToInt(_)
DigitsToInt(s) ==
  IF s = "" THEN 0
  ELSE DigitsToInt(Sub(s, 1, Len(s) - 1)) * 10 + (Find(Digits, At(s, Len(s))) - 1)

\* re.match(r'^-?\d+$', s)
IsIntLiteral(s) ==
  LET b == IF StartsWith(s, "-") THEN 2 ELSE 1
  IN b <= Len(s) /\ SpanDigit(s, b) = Len(s) + 1

\* int(s) for s matching ^-?\d+$
ParseInt(s) == IF StartsWith(s, "-") THEN 0 - DigitsToInt(From(s, 2)) ELSE DigitsToInt(s)

\* re.match(r'^".*"$', s)
IsStrLiteral(s) == Len(s) >= 2 /\ At(s, 1) = "\"" /\ At(s, Len(s)) = "\""

\* the characters of scripts in code-point order (Ord is monotone in ord())
Ascii == " !\"#$%&'()*+,-./0123456789:;<=>?@ABCDEFGHIJKLMNOPQRSTUVWXYZ[\\]^_abcdefghijklmnopqrstuvwxyz{|}~"

\* ord(c)
Ord(c) == Find(Ascii, c)

\* a < b on str: -1, 0 or 1 as a sorts before, with, or after b
RECURSIVE StrCmp(_, _)
StrCmp(a, b) ==
  IF a = "" /\ b = "" THEN 0
  ELSE IF a = "" THEN -1
  ELSE IF b = "" THEN 1
  ELSE IF Ord(At(a, 1)) < Ord(At(b, 1)) THEN -1
  ELSE IF Ord(At(a, 1)) > Ord(At(b, 1)) THEN 1
  ELSE StrCmp(From(a, 2), From(b, 2))

(***************************************************************************)
(* Bounds of the model                                                     *)
(***************************************************************************)
\* the host's memory: a Python list cannot grow beyond MemCap items
MemCap == 6

(***************************************************************************)
(* Exceptions                                                              *)
(***************************************************************************)
\* no exception: the call returned
NoExc == [cls |-> "", inner |-> ""]

\* an exception of class cls
Exc(cls) == [cls |-> cls, inner |-> ""]

\* the pseudo-exception of a call that never returns
Hang == [cls |-> "Hang", inner |-> ""]

\* issubclass(cls, TyrtRuntimeError)
IsTyrtRuntimeError(cls) ==
  cls \in {"TyrtRuntimeError", "VariableNotDefined", "ConstantReassignment",
           "InvalidMethodCall", "NotImplementedError"}

\* issubclass(cls, TyrtError)
IsTyrtError(cls) == cls = "TyrtError" \/ IsTyrtRuntimeError(cls)

\* the loop-control signals
IsLoopSignal(cls) == cls \in {"LoopBreakTyrt", "LoopContinueTyrt"}

(***************************************************************************)
(* Values and heap objects                                                 *)
(***************************************************************************)
IntV(n) == [t |-> "int", v |-> n]
BoolV(b) == [t |-> "bool", v |-> b]
StrV(s) == [t |-> "str", v |-> s]
NoneV == [t |-> "none", v |-> 0]
ListV(a) == [t |-> "list", v |-> a]
DictV(a) == [t |-> "dict", v |-> a]
InstV(a) == [t |-> "inst", v |-> a]
ExcV(e) == [t |-> "exc", v |-> e]

\* None and Some(x) for the attributes that hold None or a str
None == <<>>
Some(s) == <<s>>

\* the dict key of None, which no str key of the interpreter equals
NoneKey == " None"

\* {} as a str-keyed dict
EmptyDict == [n \in {} |-> NoneV]

\* d[k] = v on a str-keyed dict
DictSet(d, k, v) == [n \in DOMAIN d \cup {k} |-> IF n = k THEN v ELSE d[n]]

\* the key under which an attribute that is None or a str indexes a dict
KeyOf(opt) == IF opt = None THEN NoneKey ELSE opt[1]

\* dict(zip(params, args)): a later duplicate parameter wins
RECURSIVE Zip(_, _)
Zip(params, args) ==
  IF params = <<>> \/ args = <<>> THEN EmptyDict
  ELSE LET n == IF Len(params) < Len(args) THEN Len(params) ELSE Len(args)
       IN DictSet(Zip(SubSeq(params, 1, n - 1), SubSeq(args, 1, n - 1)), params[n], args[n])

\* the int a bool or int stands for in arithmetic
Num(a) == IF a.t = "bool" THEN (IF a.v THEN 1 ELSE 0) ELSE a.v

IsNum(a) == a.t \in {"int", "bool"}

\* a == b on Python values
RECURSIVE PyEq(_, _, _)
RECURSIVE SeqEq(_, _, _)
SeqEq(hp, xs, ys) ==
  /\ Len(xs) = Len(ys)
  /\ \A i \in 1..Len(xs) : PyEq(hp, xs[i], ys[i])
PyEq(hp, a, b) ==
  IF IsNum(a) /\ IsNum(b) THEN Num(a) = Num(b)
  ELSE IF a.t # b.t THEN FALSE
  ELSE IF a.t = "list" THEN a.v = b.v \/ SeqEq(hp, hp[a.v].items, hp[b.v].items)
  ELSE IF a.t = "dict"
       THEN \/ a.v = b.v
            \/ LET da == hp[a.v].items
                   db == hp[b.v].items
               IN /\ Len(da) = Len(db)
                  /\ \A i \in 1..Len(da) : \E j \in 1..Len(db) :
                        PyEq(hp, da[i][1], db[j][1]) /\ PyEq(hp, da[i][2], db[j][2])
  ELSE a.v = b.v

\* a < b on Python values: "T", "F", or "E" for a TypeError
RECURSIVE PyLt(_, _, _)
RECURSIVE SeqLt(_, _, _, _)
SeqLt(hp, xs, ys, i) ==
  IF i > Len(xs) \/ i > Len(ys) THEN (IF Len(xs) < Len(ys) THEN "T" ELSE "F")
  ELSE IF PyEq(hp, xs[i], ys[i]) THEN SeqLt(hp, xs, ys, i + 1)
  ELSE PyLt(hp, xs[i], ys[i])
PyLt(hp, a, b) ==
  IF IsNum(a) /\ IsNum(b) THEN (IF Num(a) < Num(b) THEN "T" ELSE "F")
  ELSE IF a.t = "str" /\ b.t = "str" THEN (IF StrCmp(a.v, b.v) < 0 THEN "T" ELSE "F")
  ELSE IF a.t = "list" /\ b.t = "list" THEN SeqLt(hp, hp[a.v].items, hp[b.v].items, 1)
  ELSE "E"

\* bool(a)
Truthy(hp, a) ==
  IF a.t = "bool" THEN a.v
  ELSE IF a.t = "int" THEN a.v # 0
  ELSE IF a.t = "str" THEN a.v # ""
  ELSE IF a.t = "none" THEN FALSE
  ELSE IF a.t \in {"list", "dict"} THEN hp[a.v].items # <<>>
  ELSE TRUE

\* whether a value can be a dict key
Hashable(a) == a.t \notin {"list", "dict"}

(***************************************************************************)
(* Results of calls                                                        *)
(***************************************************************************)
\* the call returned v and left the machine in state m
Ok(m, v) == [m |-> m, exc |-> NoExc, val |-> v]

\* the call raised an exception of class cls
Raise(m, cls) == [m |-> m, exc |-> Exc(cls), val |-> NoneV]

\* the call raised e
Throw(m, e) == [m |-> m, exc |-> e, val |-> NoneV]

Failed(r) == r.exc # NoExc

\* a new object on the heap: the machine after, and the address
Alloc(m, obj) == [m |-> [m EXCEPT !.heap = Append(m.heap, obj)], a |-> Len(m.heap) + 1]

\* list.append(item) on the list at address a
ListAppend(m, a, item) ==
  IF Len(m.heap[a].items) >= MemCap THEN Raise(m, "MemoryError")
  ELSE Ok([m EXCEPT !.heap[a].items = Append(@, item)], NoneV)


(***************************************************************************)
(* The machine state m of the operators below is a record                  *)
(*   self: the attributes of the TyrtLangInterpreter object                *)
(*   heap: the Python objects that have identity, by address               *)
(*   out:  the values written by print(), in order                         *)
(* A heap object is a list of lines or of values ("list"), a mapping       *)
(* ("dict", a sequence of <<key, value>> pairs) or a TyrtInstance ("inst").*)
(***************************************************************************)
NewList == [k |-> "list", items |-> <<>>]
NewDict == [k |-> "dict", items |-> <<>>]

\* TyrtInstance.__init__
TyrtInstance(class_name, methods) ==
  [k |-> "inst", class_name |-> class_name, instance_variables |-> EmptyDict,
   methods |-> methods]

\* TyrtInstance.DUNDER_MAP
DUNDER_MAP ==
  [op \in {"+", "-", "*", "/", "==", "!=", ">", "<", "getitem", "setitem"} |->
     CASE op = "+" -> "___add___"
       [] op = "-" -> "___sub___"
       [] op = "*" -> "___mul___"
       [] op = "/" -> "___truediv___"
       [] op = "==" -> "___eq___"
       [] op = "!=" -> "___ne___"
       [] op = ">" -> "___gt___"
       [] op = "<" -> "___lt___"
       [] op = "getitem" -> "___getitem___"
       [] op = "setitem" -> "___setitem___"]

\* TyrtLangInterpreter.__init__: the attributes, and the seven empty buffers
InitSelf ==
  [variables |-> EmptyDict, functions |-> EmptyDict, classes |-> EmptyDict,
   constants |-> EmptyDict,
   _in_if_block |-> FALSE, _current_if_is_active |-> FALSE, _current_if_block_lines |-> 1,
   _in_for_block |-> FALSE, _for_block |-> 2, _for_var |-> None, _for_start |-> None,
   _for_end |-> None,
   _in_while_block |-> FALSE, _while_block |-> 3, _while_condition |-> None,
   _in_func_block |-> FALSE, _func_block |-> 4, _func_name |-> None, _func_params |-> <<>>,
   _in_class_block |-> FALSE, _class_name |-> None, _class_methods |-> EmptyDict,
   _in_try_block |-> FALSE, _try_block |-> 5,
   _in_except_block |-> FALSE, _except_block |-> 6, _except_var_name |-> None,
   _in_now_block |-> FALSE, _now_block |-> 7]

InitMachine ==
  [self |-> InitSelf, heap |-> [a \in 1..7 |-> NewList], out |-> <<>>]

\* the files of the host that read_file can open, by path
HostFiles == [p \in {"a.t"} |-> "tyrt"]

(***************************************************************************)
(* The three methods through which the interpreter re-enters itself are    *)
(* called, as in the source, through the object: self.eval_expr(...),      *)
(* self.execute_block(...) and self.execute_line(...).                     *)
(***************************************************************************)
RECURSIVE Invoke(_, _)

\* self.eval_expr(expr, local_vars, current_instance)
self_eval_expr(m, expr, local_vars, current_instance) ==
  Invoke("eval_expr", <<m, expr, local_vars, current_instance>>)

\* self.execute_block(lines, local_vars, instance)
self_execute_block(m, lines, local_vars, instance) ==
  Invoke("execute_block", <<m, lines, local_vars, instance>>)

\* self.execute_line(line, current_instance)
self_execute_line(m, line, current_instance) ==
  Invoke("execute_line", <<m, line, current_instance>>)

(***************************************************************************)
(* I. TyrtInstance                                                         *)
(***************************************************************************)
\* TyrtInstance.call_method, on the instance at address a
call_method(m, a, method_name, args_list) ==
  LET methods == m.heap[a].methods
  IN IF method_name \notin DOMAIN methods THEN Raise(m, "InvalidMethodCall")
     ELSE LET params == methods[method_name].params
              body == methods[method_name].body
              expected_params == IF params # <<>> /\ params[1] = "self"
                                 THEN Tail(params) ELSE params
          IN IF Len(expected_params) # Len(args_list) THEN Raise(m, "InvalidMethodCall")
             ELSE self_execute_block(m, body, Some(Zip(expected_params, args_list)), Some(a))

\* TyrtInstance.handle_operator yielding None where the overload is missing
handle_operator_silent(m, a, op_symbol, other_obj) ==
  LET known == op_symbol \in DOMAIN DUNDER_MAP
  IN IF ~known \/ DUNDER_MAP[op_symbol] \notin DOMAIN m.heap[a].methods
     THEN Ok(m, NoneV)
     ELSE call_method(m, a, DUNDER_MAP[op_symbol], <<other_obj>>)

\* TyrtInstance.handle_operator, on the instance at address a
handle_operator(m, a, op_symbol, other_obj) ==
  LET known == op_symbol \in DOMAIN DUNDER_MAP
  IN IF ~known \/ DUNDER_MAP[op_symbol] \notin DOMAIN m.heap[a].methods
     THEN Raise(m, "NotImplementedError")
     ELSE IF op_symbol \in {"print", "len"}
     THEN call_method(m, a, DUNDER_MAP[op_symbol], <<>>)
     ELSE call_method(m, a, DUNDER_MAP[op_symbol], <<other_obj>>)

(***************************************************************************)
(* C. eval_expr                                                            *)
(***************************************************************************)
\* scope = self.variables.copy(); scope.update(self.constants); scope.update(local_vars)
Scope(m, local_vars) ==
  LET vs == m.self.variables
      cs == m.self.constants
      ls == IF local_vars = None THEN EmptyDict ELSE local_vars[1]
  IN [n \in DOMAIN vs \cup DOMAIN cs \cup DOMAIN ls |->
        IF n \in DOMAIN ls THEN ls[n] ELSE IF n \in DOMAIN cs THEN cs[n] ELSE vs[n]]

\* [self.eval_expr(a, local_vars, current_instance) for a in parts]
RECURSIVE eval_args(_, _, _, _)
eval_args(m, parts, local_vars, current_instance) ==
  IF parts = <<>> THEN [m |-> m, exc |-> NoExc, val |-> <<>>]
  ELSE LET r == self_eval_expr(m, Head(parts), local_vars, current_instance)
       IN IF Failed(r) THEN r
          ELSE LET rest == eval_args(r.m, Tail(parts), local_vars, current_instance)
               IN IF Failed(rest) THEN rest ELSE [rest EXCEPT !.val = <<r.val>> \o @]

\* 5. literals, constants, variables
eval_literal(m, expr, scope) ==
  IF expr \in DOMAIN scope THEN Ok(m, scope[expr])
  ELSE IF IsIntLiteral(expr) THEN Ok(m, IntV(ParseInt(expr)))
  ELSE IF IsStrLiteral(expr) THEN Ok(m, StrV(StripQuotes(expr)))
  ELSE Raise(m, "VariableNotDefined")

\* collection[index_value] on a list
list_getitem(m, a, index) ==
  LET items == m.heap[a].items
      i == IF IsNum(index) THEN Num(index) ELSE 0
      j == IF i < 0 THEN i + Len(items) ELSE i
  IN IF ~IsNum(index) THEN Raise(m, "TypeError")
     ELSE IF j < 0 \/ j >= Len(items) THEN Raise(m, "IndexError")
     ELSE Ok(m, items[j + 1])

\* collection[index_value] on a dict
dict_getitem(m, a, key) ==
  LET items == m.heap[a].items
      hits == {i \in 1..Len(items) : PyEq(m.heap, items[i][1], key)}
  IN IF ~Hashable(key) THEN Raise(m, "TypeError")
     ELSE IF hits = {} THEN Raise(m, "KeyError")
     ELSE Ok(m, items[CHOOSE i \in hits : TRUE][2])

\* re.match(r"(\w+)\s*\[(.*)\]$", s): <<name, index text>>, or <<>> when s does not match
MatchIndex(s) ==
  LET w == SpanWord(s, 1)
      p == SpanSpace(s, w)
  IN IF w > 1 /\ p < Len(s) /\ At(s, p) = "[" /\ EndsWith(s, "]")
     THEN <<Sub(s, 1, w - 1), Sub(s, p + 1, Len(s) - 1)>>
     ELSE <<>>

\* re.search(r"\[.+?\]$", s)
SearchIndex(s) == EndsWith(s, "]") /\ \E i \in 1..(Len(s) - 2) : At(s, i) = "["

\* 4. index or key access
eval_index(m, expr, scope) ==
  LET match == IF SearchIndex(expr) THEN MatchIndex(expr) ELSE <<>>
  IN IF match = <<>> THEN eval_literal(m, expr, scope)
     ELSE IF match[1] \notin DOMAIN scope \/ scope[match[1]] = NoneV
     THEN Raise(m, "VariableNotDefined")
     ELSE LET collection == scope[match[1]]
              ri == self_eval_expr(m, match[2], None, None)
          IN IF Failed(ri) THEN ri
             ELSE IF collection.t = "inst"
             THEN handle_operator(ri.m, collection.v, "getitem", ri.val)
             ELSE IF collection.t = "list" THEN list_getitem(ri.m, collection.v, ri.val)
             ELSE IF collection.t = "dict" THEN dict_getitem(ri.m, collection.v, ri.val)
             ELSE eval_literal(ri.m, expr, scope)

\* left_val <op> right_val on values that are not instances
native_operator(m, op, left_val, right_val) ==
  IF op = "+"
  THEN IF IsNum(left_val) /\ IsNum(right_val)
       THEN Ok(m, IntV(Num(left_val) + Num(right_val)))
       ELSE IF left_val.t = "str" /\ right_val.t = "str"
       THEN Ok(m, StrV(left_val.v \o right_val.v))
       ELSE IF left_val.t = "list" /\ right_val.t = "list"
       THEN LET al == Alloc(m, [k |-> "list",
                                items |-> m.heap[left_val.v].items \o m.heap[right_val.v].items])
            IN Ok(al.m, ListV(al.a))
       ELSE Raise(m, "TypeError")
  ELSE IF op = "==" THEN Ok(m, BoolV(PyEq(m.heap, left_val, right_val)))
  ELSE LET lt == IF op = ">" THEN PyLt(m.heap, right_val, left_val)
                 ELSE PyLt(m.heap, left_val, right_val)
       IN IF lt = "E" THEN Raise(m, "TypeError") ELSE Ok(m, BoolV(lt = "T"))

\* the first of '+', '==', '>', '<' that occurs in expr between spaces, or ""
FirstOperator(expr) ==
  IF Contains(expr, " + ") THEN "+"
  ELSE IF Contains(expr, " == ") THEN "=="
  ELSE IF Contains(expr, " > ") THEN ">"
  ELSE IF Contains(expr, " < ") THEN "<"
  ELSE ""

\* 3. arithmetic and comparison operators
eval_operator(m, expr, scope, local_vars, current_instance) ==
  LET op == FirstOperator(expr)
  IN IF op = "" THEN eval_index(m, expr, scope)
     ELSE LET parts == Split1(expr, " " \o op \o " ")
              rl == self_eval_expr(m, parts[1], local_vars, current_instance)
          IN IF Failed(rl) THEN rl
             ELSE LET rr == self_eval_expr(rl.m, parts[2], local_vars, current_instance)
                  IN IF Failed(rr) THEN rr
                     ELSE IF rl.val.t = "inst"
                     THEN handle_operator(rr.m, rl.val.v, op, rr.val)
                     ELSE native_operator(rr.m, op, rl.val, rr.val)

\* the collection literals
eval_collection(m, expr, scope, local_vars, current_instance) ==
  IF StartsWith(expr, ".lista(")
  THEN LET ra == eval_args(m, SplitArgs(Sub(expr, 8, Len(expr) - 1)), None, None)
       IN IF Failed(ra) THEN ra
          ELSE LET al == Alloc(ra.m, [k |-> "list", items |-> ra.val])
               IN Ok(al.m, ListV(al.a))
  ELSE IF StartsWith(expr, "#dicionario(")
  THEN LET al == Alloc(m, NewDict) IN Ok(al.m, DictV(al.a))
  ELSE eval_operator(m, expr, scope, local_vars, current_instance)


\* int(v): <<"ok", n>>, or <<cls>> for the exception int() raises
PyInt(v) ==
  IF IsNum(v) THEN <<"ok", Num(v)>>
  ELSE IF v.t = "str"
  THEN LET t == Strip(v.v)
           u == IF StartsWith(t, "+") THEN From(t, 2) ELSE t
       IN IF IsIntLiteral(u) /\ ~StartsWith(t, "+-") THEN <<"ok", ParseInt(u)>>
          ELSE <<"ValueError">>
  ELSE <<"TypeError">>

\* the native methods of a list, with pop() taking the first element
list_method_pop_first(m, base_obj, method_name, args_list) ==
  LET a == base_obj.v
      items == m.heap[a].items
  IN IF method_name = "len" THEN Ok(m, IntV(Len(items)))
     ELSE IF method_name = "append"
     THEN LET r == ListAppend(m, a, args_list[1])
          IN IF Failed(r) THEN r ELSE Ok(r.m, base_obj)
     ELSE IF items = <<>> THEN Raise(m, "TyrtRuntimeError")
     ELSE Ok([m EXCEPT !.heap[a].items = Tail(items)], Head(items))

\* the native methods of a list: len, append, pop
list_method(m, base_obj, method_name, args_list) ==
  LET a == base_obj.v
      items == m.heap[a].items
  IN IF method_name = "len" THEN Ok(m, IntV(Len(items)))
     ELSE IF method_name = "append"
     THEN IF Len(args_list) # 1 THEN Raise(m, "InvalidMethodCall")
          ELSE LET r == ListAppend(m, a, args_list[1])
               IN IF Failed(r) THEN r ELSE Ok(r.m, base_obj)
     ELSE IF method_name = "pop"
     THEN IF Len(args_list) > 1 THEN Raise(m, "InvalidMethodCall")
          ELSE LET conv == IF args_list # <<>> THEN PyInt(args_list[1]) ELSE <<"ok", -1>>
               IN IF conv[1] # "ok" THEN Raise(m, conv[1])
                  ELSE LET index == conv[2]
                           j == IF index < 0 THEN index + Len(items) ELSE index
                       IN IF j < 0 \/ j >= Len(items) THEN Raise(m, "TyrtRuntimeError")
                          ELSE Ok([m EXCEPT !.heap[a].items =
                                      SubSeq(items, 1, j) \o SubSeq(items, j + 2, Len(items))],
                                  items[j + 1])
     ELSE Raise(m, "InvalidMethodCall")

\* the native function read_file
read_file(m, args) ==
  IF Len(args) # 1 THEN Raise(m, "InvalidMethodCall")
  ELSE IF args[1].t # "str" THEN Raise(m, "InvalidMethodCall")
  ELSE IF args[1].v \in DOMAIN HostFiles THEN Ok(m, StrV(HostFiles[args[1].v]))
  ELSE Raise(m, "TyrtRuntimeError")

\* a call of the registered function func_name
call_function(m, func_name, args, current_instance) ==
  LET params == m.self.functions[func_name].params
      body == m.self.functions[func_name].body
  IN IF Len(params) # Len(args) THEN Raise(m, "InvalidMethodCall")
     ELSE self_execute_block(m, body, Some(Zip(params, args)), current_instance)

\* a call of the registered class func_name: a new instance
instantiate(m, func_name, args) ==
  LET cls_methods == m.self.classes[func_name]
      al == Alloc(m, TyrtInstance(func_name, cls_methods))
  IN IF "___init___" \in DOMAIN cls_methods
     THEN LET rc == call_method(al.m, al.a, "___init___", args)
          IN IF Failed(rc) THEN rc ELSE Ok(rc.m, InstV(al.a))
     ELSE Ok(al.m, InstV(al.a))

\* re.match(r"(\w+)\s*\((.*)\)$", expr) for an expr that ends with ")":
\* <<name, argument text>>, or <<>> when expr does not match
MatchCall(expr) ==
  LET w == SpanWord(expr, 1)
      p == SpanSpace(expr, w)
  IN IF w > 1 /\ p < Len(expr) /\ At(expr, p) = "(" /\ EndsWith(expr, ")")
     THEN <<Sub(expr, 1, w - 1), Sub(expr, p + 1, Len(expr) - 1)>>
     ELSE <<>>

\* native functions, instantiation and TyrtLang functions
eval_native_func(m, expr, scope, local_vars, current_instance) ==
  LET match == MatchCall(expr)
  IN IF match = <<>> THEN eval_collection(m, expr, scope, local_vars, current_instance)
     ELSE LET func_name == match[1]
              ra == eval_args(m, SplitArgs(match[2]), local_vars, current_instance)
          IN IF Failed(ra) THEN ra
             ELSE IF func_name = "read_file" THEN read_file(ra.m, ra.val)
             ELSE IF func_name \in DOMAIN ra.m.self.functions
             THEN call_function(ra.m, func_name, ra.val, current_instance)
             ELSE IF func_name \in DOMAIN ra.m.self.classes
             THEN instantiate(ra.m, func_name, ra.val)
             ELSE eval_collection(ra.m, expr, scope, local_vars, current_instance)

\* 2. a method call on an object or a native list
eval_method_call(m, expr, scope, local_vars, current_instance) ==
  IF ~Contains(expr, ".")
  THEN eval_native_func(m, expr, scope, local_vars, current_instance)
  ELSE LET cut == RSplit1(expr, ".")
           call == Split1(cut[2], "(")
       IN IF Len(call) < 2 THEN Raise(m, "ValueError")
          ELSE LET method_name == call[1]
                   args_str == call[2]
                   rb == self_eval_expr(m, cut[1], local_vars, current_instance)
               IN IF Failed(rb) THEN rb
                  ELSE LET ra == eval_args(rb.m,
                                           SplitArgs(Sub(args_str, 1, Len(args_str) - 1)),
                                           local_vars, current_instance)
                       IN IF Failed(ra) THEN ra
                          ELSE IF rb.val.t = "list"
                          THEN list_method(ra.m, rb.val, method_name, ra.val)
                          ELSE IF /\ rb.val.t = "inst"
                                  /\ method_name \in DOMAIN ra.m.heap[rb.val.v].methods
                          THEN call_method(ra.m, rb.val.v, method_name, ra.val)
                          ELSE eval_native_func(ra.m, expr, scope, local_vars,
                                                current_instance)

\* TyrtLangInterpreter.eval_expr
eval_expr(m, expr_in, local_vars, current_instance) ==
  LET expr == Strip(expr_in)
      scope == Scope(m, local_vars)
  IN IF current_instance # None /\ StartsWith(expr, "self.")
     THEN LET var_instance_name == Strip(From(expr, 6))
              instance_variables == m.heap[current_instance[1]].instance_variables
          IN IF var_instance_name \in DOMAIN instance_variables
             THEN Ok(m, instance_variables[var_instance_name])
             ELSE Raise(m, "VariableNotDefined")
     ELSE IF Contains(expr, "(") /\ EndsWith(expr, ")")
     THEN eval_method_call(m, expr, scope, local_vars, current_instance)
     ELSE eval_operator(m, expr, scope, local_vars, current_instance)

\* TyrtLangInterpreter.eval_condition; condition_expr is None or a str
eval_condition(m, condition_expr) ==
  IF condition_expr = None THEN Raise(m, "AttributeError")
  ELSE LET r == self_eval_expr(m, condition_expr[1], None, None)
       IN IF Failed(r) THEN r ELSE Ok(r.m, BoolV(Truthy(r.m.heap, r.val)))


(***************************************************************************)
(* D. Block processing                                                     *)
(***************************************************************************)
\* the for loop of execute_block going on after a return_object line
RECURSIVE execute_block_lines_past_return(_, _, _, _)
execute_block_lines_past_return(m, lines, i, instance) ==
  IF i > Len(m.heap[lines].items) THEN Ok(m, NoneV)
  ELSE LET line == m.heap[lines].items[i]
       IN IF StartsWith(line, "return_object")
          THEN LET rv == self_eval_expr(m, Strip(From(line, 14)), Some(m.self.variables), instance)
               IN IF Failed(rv) THEN rv
                  ELSE LET rest == execute_block_lines_past_return(rv.m, lines, i + 1, instance)
                       IN IF Failed(rest) THEN rest ELSE Ok(rest.m, rv.val)
          ELSE LET r == self_execute_line(m, line, instance)
               IN IF Failed(r) THEN r
                  ELSE execute_block_lines_past_return(r.m, lines, i + 1, instance)

\* the for loop of execute_block, from the i-th item of the list at address lines
RECURSIVE execute_block_lines(_, _, _, _)
execute_block_lines(m, lines, i, instance) ==
  IF i > Len(m.heap[lines].items) THEN Ok(m, NoneV)
  ELSE LET line == m.heap[lines].items[i]
       IN IF StartsWith(line, "return_object")
          THEN self_eval_expr(m, Strip(From(line, 14)), Some(m.self.variables), instance)
          ELSE LET r == self_execute_line(m, line, instance)
               IN IF Failed(r) THEN r
                  ELSE execute_block_lines(r.m, lines, i + 1, instance)

\* the except clause of execute_block without the case of the loop signals
BlockException_wrapping_signals(e) ==
  IF IsTyrtRuntimeError(e.cls) THEN e
  ELSE IF ~IsTyrtError(e.cls) THEN [cls |-> "TyrtRuntimeError", inner |-> e.cls]
  ELSE e

\* the except clause of execute_block: the exception that leaves it
BlockException(e) ==
  IF IsLoopSignal(e.cls) \/ IsTyrtRuntimeError(e.cls) THEN e
  ELSE IF ~IsTyrtError(e.cls) THEN [cls |-> "TyrtRuntimeError", inner |-> e.cls]
  ELSE e

\* the finally clause of execute_block without the restoration
RestoreVariables_leaking(m, is_function_call, old_variables) == m

\* the finally clause of execute_block
RestoreVariables(m, is_function_call, old_variables) ==
  IF is_function_call THEN [m EXCEPT !.self.variables = old_variables] ELSE m

\* TyrtLangInterpreter.execute_block; lines is the address of a list of lines,
\* local_vars is None or Some(dict), instance is None or Some(address)
execute_block(m, lines, local_vars, instance) ==
  LET is_function_call == local_vars # None
      old_variables == m.self.variables
      m1 == IF is_function_call THEN [m EXCEPT !.self.variables = local_vars[1]] ELSE m
      r == execute_block_lines(m1, lines, 1, instance)
  IN IF r.exc = Hang THEN r
     ELSE [m |-> RestoreVariables(r.m, is_function_call, old_variables),
           exc |-> IF Failed(r) THEN BlockException(r.exc) ELSE NoExc,
           val |-> r.val]

\* self.<attr> = [] : a new empty list
\* (the attribute is set by the caller to the address returned)
FreshList(m) == Alloc(m, NewList)

\* TyrtLangInterpreter.process_try_block
process_try_block(m) ==
  LET try_block == m.self._try_block
      except_block == m.self._except_block
      now_block == m.self._now_block
      r1 == self_execute_block(m, try_block, None, None)
      caught == Failed(r1) /\ IsTyrtRuntimeError(r1.exc.cls)
  IN IF Failed(r1) /\ ~caught THEN r1
     ELSE LET r2 == IF caught /\ r1.m.heap[except_block].items # <<>>
                    THEN self_execute_block(
                           [r1.m EXCEPT !.self.variables =
                              DictSet(@, KeyOf(r1.m.self._except_var_name), ExcV(r1.exc))],
                           except_block, None, None)
                    ELSE Ok(r1.m, NoneV)
          IN IF Failed(r2) THEN r2
             ELSE LET r3 == IF r2.m.heap[now_block].items # <<>>
                            THEN self_execute_block(r2.m, now_block, None, None)
                            ELSE Ok(r2.m, NoneV)
                  IN IF Failed(r3) THEN r3
                     ELSE LET a1 == FreshList(r3.m)
                              a2 == FreshList(a1.m)
                              a3 == FreshList(a2.m)
                          IN Ok([a3.m EXCEPT !.self._try_block = a1.a,
                                             !.self._except_block = a2.a,
                                             !.self._now_block = a3.a], NoneV)

\* the iterations of process_for_block from i to end_val
RECURSIVE for_iterations(_, _, _)
for_iterations(m, i, end_val) ==
  IF i > end_val THEN Ok(m, NoneV)
  ELSE LET m1 == [m EXCEPT !.self.variables = DictSet(@, KeyOf(m.self._for_var), IntV(i))]
           r == self_execute_block(m1, m1.self._for_block, None, None)
       IN IF ~Failed(r) \/ r.exc.cls = "LoopContinueTyrt"
          THEN for_iterations(r.m, i + 1, end_val)
          ELSE IF r.exc.cls = "LoopBreakTyrt" THEN Ok(r.m, NoneV)
          ELSE r

\* TyrtLangInterpreter.process_for_block
process_for_block(m) ==
  IF m.self._for_start = None \/ m.self._for_end = None THEN Raise(m, "TypeError")
  ELSE LET start_val == DigitsToInt(m.self._for_start[1])
           end_val == DigitsToInt(m.self._for_end[1])
           r == for_iterations(m, start_val, end_val)
       IN IF Failed(r) THEN r
          ELSE LET al == FreshList(r.m)
               IN Ok([al.m EXCEPT !.self._for_block = al.a], NoneV)

\* the iterations of process_while_block; an iteration that leaves the machine as
\* it found it is repeated for ever
RECURSIVE while_iterations(_, _)
while_iterations(m, block) ==
  LET rc == eval_condition(m, m.self._while_condition)
  IN IF Failed(rc) THEN rc
     ELSE IF ~rc.val.v THEN Ok(rc.m, NoneV)
     ELSE LET r == self_execute_block(rc.m, block, None, None)
          IN IF Failed(r) /\ r.exc.cls = "LoopBreakTyrt" THEN Ok(r.m, NoneV)
             ELSE IF Failed(r) /\ r.exc.cls # "LoopContinueTyrt" THEN r
             ELSE IF r.m = m THEN Throw(m, Hang)
             ELSE while_iterations(r.m, block)

\* TyrtLangInterpreter.process_while_block
process_while_block(m) ==
  LET r == while_iterations(m, m.self._while_block)
  IN IF Failed(r) THEN r
     ELSE LET al == FreshList(r.m)
          IN Ok([al.m EXCEPT !.self._while_condition = None, !.self._while_block = al.a],
                NoneV)

\* TyrtLangInterpreter.process_current_if_block
process_current_if_block(m) ==
  LET r == IF m.self._current_if_is_active
           THEN self_execute_block(m, m.self._current_if_block_lines, None, None)
           ELSE Ok(m, NoneV)
  IN IF Failed(r) THEN r
     ELSE LET al == FreshList(r.m)
          IN Ok([al.m EXCEPT !.self._current_if_is_active = FALSE,
                             !.self._current_if_block_lines = al.a], NoneV)

\* the block processor has run with result r; when it returned, the flag of
\* the block is cleared
Then(r, flag) == IF Failed(r) THEN r ELSE Ok([r.m EXCEPT !.self[flag] = FALSE], NoneV)

\* TyrtLangInterpreter.execute_block_end
execute_block_end(m) ==
  LET s == m.self
      method == [params |-> s._func_params, body |-> s._func_block]
      al == FreshList(m)
      m1 == [m EXCEPT !.self._in_except_block = FALSE, !.self._in_try_block = FALSE]
  IN IF s._in_class_block
     THEN IF s._in_func_block
          THEN Ok([al.m EXCEPT !.self._class_methods = DictSet(@, KeyOf(s._func_name), method),
                               !.self._in_func_block = FALSE,
                               !.self._func_block = al.a], NoneV)
          ELSE Ok([m EXCEPT !.self.classes = DictSet(@, KeyOf(s._class_name), s._class_methods),
                            !.self._in_class_block = FALSE,
                            !.self._class_methods = EmptyDict], NoneV)
     ELSE IF s._in_func_block
     THEN Ok([al.m EXCEPT !.self.functions = DictSet(@, KeyOf(s._func_name), method),
                          !.self._in_func_block = FALSE,
                          !.self._func_block = al.a], NoneV)
     ELSE IF s._in_now_block THEN Then(process_try_block(m), "_in_now_block")
     ELSE IF m1.self._in_for_block THEN Then(process_for_block(m1), "_in_for_block")
     ELSE IF m1.self._in_while_block THEN Then(process_while_block(m1), "_in_while_block")
     ELSE IF m1.self._in_if_block THEN Then(process_current_if_block(m1), "_in_if_block")
     ELSE Raise(m1, "LineNoRecognized")


(***************************************************************************)
(* B. execute_line                                                         *)
(***************************************************************************)
\* re.match(r"Except\s+as\s+(\w+)\s*\{?", line) for a line that starts with
\* "Except": <<name>>, or <<>> when the line does not match
MatchExcept(line) ==
  LET j == SpanSpace(line, 7)
      k == SpanSpace(line, j + 2)
      w == SpanWord(line, k)
  IN IF j > 7 /\ OccursAt(line, "as", j) /\ k > j + 2 /\ w > k
     THEN <<Sub(line, k, w - 1)>>
     ELSE <<>>

\* whether \s*ty\s*(\d+):(\d+)\s*(_CS-TINK)?\s*\{ matches line from position e
EntrTailMatches(line, e) ==
  LET a == SpanSpace(line, e)
      b == SpanSpace(line, a + 2)
      c == SpanDigit(line, b)
      d == SpanDigit(line, c + 1)
      f == SpanSpace(line, d)
  IN /\ OccursAt(line, "ty", a)
     /\ c > b
     /\ CharAt(line, c) = ":"
     /\ d > c + 1
     /\ \/ CharAt(line, f) = "{"
        \/ OccursAt(line, "_CS-TINK", f) /\ CharAt(line, SpanSpace(line, f + 8)) = "{"

\* re.match(r"entr_i\s*(\w+)\s*ty\s*(\d+):(\d+)\s*(_CS-TINK)?\s*\{", line) for a line
\* that starts with "entr_i": <<var, start, end>>, or <<>> when it does not match
MatchEntr(line) ==
  LET p == SpanSpace(line, 7)
      q == SpanWord(line, p)
      ends == {e \in (p + 1)..q : EntrTailMatches(line, e)}
  IN IF ends = {} THEN <<>>
     ELSE LET e == CHOOSE x \in ends : \A y \in ends : x >= y
              b == SpanSpace(line, SpanSpace(line, e) + 2)
              c == SpanDigit(line, b)
              d == SpanDigit(line, c + 1)
          IN <<Sub(line, p, e - 1), Sub(line, b, c - 1), Sub(line, c + 1, d - 1)>>

\* re.match(r"class\s+(\w+)\s*\{", line) for a line that starts with "class ":
\* <<name>>, or <<>> when it does not match
MatchClass(line) ==
  LET p == SpanSpace(line, 6)
      w == SpanWord(line, p)
  IN IF p > 6 /\ w > p /\ CharAt(line, SpanSpace(line, w)) = "{"
     THEN <<Sub(line, p, w - 1)>>
     ELSE <<>>

\* re.match(r"func\s+(\w+)\s*\((.*)\)\s*\{", line) for a line that starts with
\* "func ": <<name, parameter text>>, or <<>> when it does not match
MatchFunc(line) ==
  LET p == SpanSpace(line, 5)
      w == SpanWord(line, p)
      q == SpanSpace(line, w)
      closes == {r \in (q + 1)..Len(line) :
                   CharAt(line, r) = ")" /\ CharAt(line, SpanSpace(line, r + 1)) = "{"}
  IN IF p > 5 /\ w > p /\ CharAt(line, q) = "(" /\ closes # {}
     THEN <<Sub(line, p, w - 1),
            Sub(line, q + 1, (CHOOSE r \in closes : \A y \in closes : r >= y) - 1)>>
     ELSE <<>>

\* the test of case 2 without the class flag
Capturing_without_class(s) ==
  \/ s._in_if_block \/ s._in_for_block \/ s._in_while_block \/ s._in_func_block
  \/ s._in_try_block \/ s._in_except_block \/ s._in_now_block

\* whether a capture is open
Capturing(s) ==
  \/ s._in_if_block \/ s._in_for_block \/ s._in_while_block \/ s._in_func_block
  \/ s._in_class_block \/ s._in_try_block \/ s._in_except_block \/ s._in_now_block

\* the capture of a line at the front of the buffer of the open block
capture_line_at_front(m, line) ==
  LET s == m.self
      buffer == IF s._in_if_block THEN s._current_if_block_lines
                ELSE IF s._in_for_block THEN s._for_block
                ELSE IF s._in_while_block THEN s._while_block
                ELSE IF s._in_func_block \/ s._in_class_block THEN s._func_block
                ELSE IF s._in_try_block THEN s._try_block
                ELSE IF s._in_except_block THEN s._except_block
                ELSE s._now_block
  IN Ok([m EXCEPT !.heap[buffer].items = <<line>> \o @], NoneV)

\* 2. the capture of a line into the buffer of the open block
capture_line(m, line) ==
  LET s == m.self
      buffer == IF s._in_if_block THEN s._current_if_block_lines
                ELSE IF s._in_for_block THEN s._for_block
                ELSE IF s._in_while_block THEN s._while_block
                ELSE IF s._in_func_block \/ s._in_class_block THEN s._func_block
                ELSE IF s._in_try_block THEN s._try_block
                ELSE IF s._in_except_block THEN s._except_block
                ELSE s._now_block
  IN ListAppend(m, buffer, line)

\* whether line starts with the keyword of a block declaration
StartsBlock(line) ==
  \/ StartsWith(line, "Try") \/ StartsWith(line, "Except") \/ StartsWith(line, "Now")
  \/ StartsWith(line, "entr_i") \/ StartsWith(line, "/1")
  \/ StartsWith(line, "BILHETE_NADA") \/ StartsWith(line, "class ")
  \/ StartsWith(line, "func ")

\* 3. the declaration of a block, for a line with StartsBlock(line)
begin_block(m, line) ==
  IF StartsWith(line, "Try")
  THEN LET a1 == FreshList(m)
           a2 == FreshList(a1.m)
           a3 == FreshList(a2.m)
       IN Ok([a3.m EXCEPT !.self._in_try_block = TRUE,
                          !.self._try_block = a1.a,
                          !.self._except_block = a2.a,
                          !.self._now_block = a3.a,
                          !.self._except_var_name = None], NoneV)
  ELSE IF StartsWith(line, "Except")
  THEN LET match == MatchExcept(line)
           al == FreshList(m)
       IN IF match = <<>> /\ line # "Except {" THEN Raise(m, "InvalidSyntax")
          ELSE Ok([al.m EXCEPT !.self._except_var_name =
                                  IF match = <<>> THEN Some("tyrt_error_obj") ELSE Some(match[1]),
                               !.self._in_except_block = TRUE,
                               !.self._except_block = al.a], NoneV)
  ELSE IF StartsWith(line, "Now")
  THEN LET al == FreshList(m)
       IN Ok([al.m EXCEPT !.self._in_now_block = TRUE, !.self._now_block = al.a], NoneV)
  ELSE IF StartsWith(line, "entr_i")
  THEN LET match == MatchEntr(line)
           al == FreshList(m)
       IN IF match = <<>> THEN Raise(m, "InvalidSyntax")
          ELSE Ok([al.m EXCEPT !.self._for_var = Some(match[1]),
                               !.self._for_start = Some(match[2]),
                               !.self._for_end = Some(match[3]),
                               !.self._in_for_block = TRUE,
                               !.self._for_block = al.a], NoneV)
  ELSE IF StartsWith(line, "/1")
  THEN LET al == FreshList(m)
       IN IF ~EndsWith(line, "{") THEN Raise(m, "InvalidSyntax")
          ELSE Ok([al.m EXCEPT !.self._while_condition =
                                  Some(Strip(Sub(line, 3, Len(line) - 1))),
                               !.self._in_while_block = TRUE,
                               !.self._while_block = al.a], NoneV)
  ELSE IF StartsWith(line, "BILHETE_NADA")
  THEN LET al == FreshList(m)
           m1 == [al.m EXCEPT !.self._in_if_block = TRUE,
                              !.self._current_if_block_lines = al.a]
           r == eval_condition(m1, Some(Strip(Sub(line, 13, Len(line) - 1))))
       IN IF ~EndsWith(line, "{") THEN Raise(m, "InvalidSyntax")
          ELSE IF Failed(r) THEN r
          ELSE Ok([r.m EXCEPT !.self._current_if_is_active = r.val.v], NoneV)
  ELSE IF StartsWith(line, "class ")
  THEN LET match == MatchClass(line)
       IN IF match = <<>> THEN Raise(m, "InvalidSyntax")
          ELSE Ok([m EXCEPT !.self._in_class_block = TRUE,
                            !.self._class_name = Some(match[1]),
                            !.self._class_methods = EmptyDict], NoneV)
  ELSE LET match == MatchFunc(line)
           al == FreshList(m)
       IN IF match = <<>> THEN Raise(m, "InvalidSyntax")
          ELSE Ok([al.m EXCEPT !.self._in_func_block = TRUE,
                               !.self._func_name = Some(match[1]),
                               !.self._func_params = SplitArgs(match[2]),
                               !.self._func_block = al.a], NoneV)

\* collection[index_value] = new_value on a list
list_setitem(m, a, index, new_value) ==
  LET items == m.heap[a].items
      i == IF IsNum(index) THEN Num(index) ELSE 0
      j == IF i < 0 THEN i + Len(items) ELSE i
  IN IF ~IsNum(index) THEN Raise(m, "TypeError")
     ELSE IF j < 0 \/ j >= Len(items) THEN Raise(m, "IndexError")
     ELSE Ok([m EXCEPT !.heap[a].items[j + 1] = new_value], NoneV)

\* collection[index_value] = new_value on a dict
dict_setitem(m, a, key, new_value) ==
  LET items == m.heap[a].items
      hits == {i \in 1..Len(items) : PyEq(m.heap, items[i][1], key)}
  IN IF ~Hashable(key) THEN Raise(m, "TypeError")
     ELSE IF hits = {}
     THEN Ok([m EXCEPT !.heap[a].items = Append(@, <<key, new_value>>)], NoneV)
     ELSE Ok([m EXCEPT !.heap[a].items[CHOOSE i \in hits : TRUE][2] = new_value], NoneV)

\* the end of an assignment without the test of the constants
assign_variable_unchecked(m, var, new_value) ==
  Ok([m EXCEPT !.self.variables = DictSet(@, var, new_value)], NoneV)

\* the end of an assignment: var = new_value on a bare name
assign_variable(m, var, new_value) ==
  IF var \in DOMAIN m.self.constants THEN Raise(m, "ConstantReassignment")
  ELSE Ok([m EXCEPT !.self.variables = DictSet(@, var, new_value)], NoneV)

\* an assignment to name[index]
assign_index(m, var_expr, match, new_value) ==
  IF match[1] \notin DOMAIN m.self.variables THEN Raise(m, "VariableNotDefined")
  ELSE LET collection == m.self.variables[match[1]]
           ri == self_eval_expr(m, match[2], None, None)
       IN IF Failed(ri) THEN ri
          ELSE IF /\ collection.t = "inst"
                  /\ "___setitem___" \in DOMAIN ri.m.heap[collection.v].methods
          THEN LET rc == call_method(ri.m, collection.v, "___setitem___",
                                     <<ri.val, new_value>>)
               IN IF Failed(rc) THEN rc ELSE Ok(rc.m, NoneV)
          ELSE IF collection.t = "list"
          THEN list_setitem(ri.m, collection.v, ri.val, new_value)
          ELSE IF collection.t = "dict"
          THEN dict_setitem(ri.m, collection.v, ri.val, new_value)
          ELSE assign_variable(ri.m, var_expr, new_value)

\* 4. an assignment: a line "tyrt <target> = <expr>"
assignment(m, assign_part, current_instance) ==
  LET cut == Split1(assign_part, "=")
      var_expr == Strip(cut[1])
      r == self_eval_expr(m, cut[2], None, current_instance)
      match_index_assign == MatchIndex(var_expr)
  IN IF Failed(r) THEN r
     ELSE IF current_instance # None /\ StartsWith(var_expr, "self.")
     THEN Ok([r.m EXCEPT !.heap[current_instance[1]].instance_variables =
                            DictSet(@, Strip(From(var_expr, 6)), r.val)], NoneV)
     ELSE IF match_index_assign # <<>>
     THEN assign_index(r.m, var_expr, match_index_assign, r.val)
     ELSE assign_variable(r.m, var_expr, r.val)

\* 4. the commands that are not assignments
execute_command(m, line, current_instance) ==
  IF line = "loop.break" THEN Raise(m, "LoopBreakTyrt")
  ELSE IF line = "loop.continue" THEN Raise(m, "LoopContinueTyrt")
  ELSE IF StartsWith(line, "print|[")
  THEN LET r == self_eval_expr(m, Strip(Sub(line, 8, Len(line) - 1)), None, current_instance)
       IN IF Failed(r) THEN r ELSE Ok([r.m EXCEPT !.out = Append(@, r.val)], NoneV)
  ELSE IF Contains(line, "(") /\ EndsWith(line, ")")
  THEN LET r == self_eval_expr(m, line, None, current_instance)
       IN IF ~Failed(r) THEN Ok(r.m, NoneV)
          ELSE IF IsTyrtError(r.exc.cls) THEN Raise(r.m, "LineNoRecognized")
          ELSE r
  ELSE Raise(m, "LineNoRecognized")

\* TyrtLangInterpreter.execute_line; current_instance is None or Some(address)
execute_line(m, line_in, current_instance) ==
  LET line == Strip(line_in)
      assign_part == Strip(From(line, 6))
  IN IF StartsWith(line, "/0") \/ line = "" THEN Ok(m, NoneV)
     ELSE IF line = "}" THEN execute_block_end(m)
     ELSE IF Capturing(m.self) THEN capture_line(m, line)
     ELSE IF StartsBlock(line) THEN begin_block(m, line)
     ELSE IF StartsWith(line, "tyrt ") /\ Contains(assign_part, "=")
     THEN assignment(m, assign_part, current_instance)
     ELSE execute_command(m, line, current_instance)

\* the for loop of run on the lines: the lines are executed in order until
\* one raises; the error is reported and run returns
RECURSIVE run(_, _)
run(m, lines) ==
  IF lines = <<>> THEN Ok(m, NoneV)
  ELSE LET r == self_execute_line(m, Head(lines), None)
       IN IF r.exc = Hang THEN r
          ELSE IF Failed(r) THEN Ok(r.m, NoneV)
          ELSE run(r.m, Tail(lines))


\* the method of the interpreter named method, applied to args
Invoke(method, args) ==
  CASE method = "eval_expr" -> eval_expr(args[1], args[2], args[3], args[4])
    [] method = "execute_block" -> execute_block(args[1], args[2], args[3], args[4])
    [] method = "execute_line" -> execute_line(args[1], args[2], args[3])
    [] method = "process_try_block" -> process_try_block(args[1])
    [] method = "run" -> run(args[1], args[2])

(***************************************************************************)
(* A. run                                                                  *)
(***************************************************************************)
\* the scripts given to run(), each as code_source.split('\n')

\* the longest function body of the scripts
MaxBody == 3

\* a numeric-range loop over the range text range, then a line after it
ForScript(range, body) ==
  <<"entr_i i ty " \o range \o " {">> \o body \o <<"}", "print|[0]">>
ForRanges == {"3:5", "4:4", "5:3"}
ForBodies == {<<>>, <<"print|[i]">>, <<"print|[i]", "print|[i + 1]">>}
ForScripts == {ForScript(range, body) : range \in ForRanges, body \in ForBodies}

\* Try / Except / Now around the line raising, then a line after them
TryScript(raising) ==
  <<"Try {", raising, "}", "Except as e {", "print|[e]", "}",
    "Now {", "print|[99]", "}", "print|[5]">>
RaisingLines == {"tyrt x = zz", "print|[1 + zz]"}
TryScripts == {TryScript(raising) : raising \in RaisingLines}

\* a conditional on x = 1, then a line after it
IfScript(condition, body) ==
  <<"tyrt x = 1", "BILHETE_NADA " \o condition \o " {">> \o body \o <<"}", "print|[9]">>
IfConditions == {"x == 1", "x == 2", "x > 0"}
IfBodies == {<<"print|[7]">>, <<"print|[7]", "print|[8]">>}
IfScripts == {IfScript(condition, body) : condition \in IfConditions, body \in IfBodies}

\* while loops: one whose condition stays true, one whose condition is false
WhileHangScript == <<"/1 1 == 1 {", "}", "print|[1]">>
WhileFalseScript == <<"/1 1 == 2 {", "print|[7]", "}", "print|[1]">>
WhileScripts == {WhileHangScript, WhileFalseScript}

\* a function f(a) with the body, called with 1 in a print line
FuncScript(body) == <<"func f(a) {">> \o body \o <<"}", "print|[f(1)]">>
BodyLines == {"print|[a]", "tyrt a = a + 1", "return_object a + 1", "return_object 0"}
Bodies == UNION {[1..n -> BodyLines] : n \in 0..MaxBody}
FuncScripts == {FuncScript(body) : body \in Bodies}

\* calls whose body assigns a global name and its parameter, on each exit path
CallReturnScript ==
  <<"tyrt y = 7", "func g(a) {", "tyrt y = a", "tyrt a = 9", "}",
    "print|[g(1)]", "g(2)", "print|[y]">>
CallErrorScript ==
  <<"tyrt y = 7", "func h(a) {", "tyrt y = a", "tyrt q = zz", "}", "print|[h(1)]">>
CallErrorBareScript ==
  <<"tyrt y = 7", "func h(a) {", "tyrt y = a", "tyrt q = zz", "}", "h(1)">>
CallBreakScript ==
  <<"tyrt y = 7", "func k(a) {", "tyrt y = a", "loop.break", "}", "print|[k(1)]">>
NestedCallScript ==
  <<"func f(a) {", "tyrt u = 0", "return_object a + 1", "}",
    "func g(b) {", "tyrt u = b", "tyrt v = f(b)", "return_object u + v", "}",
    "tyrt u = 3", "print|[g(4)]", "print|[u]">>
CallScripts ==
  {CallReturnScript, CallErrorScript, CallErrorBareScript, CallBreakScript, NestedCallScript}

\* a function of two parameters called with another number of arguments
ArityScript(call_line) ==
  <<"func f(a, b) {", "print|[a]", "return_object a", "}", call_line>>
ArityCalls == {"f()", "f(1)", "f(1, 2, 3)"}
ArityScripts ==
  {ArityScript("tyrt x = " \o call) : call \in ArityCalls}
    \cup {ArityScript("print|[" \o call \o "]") : call \in ArityCalls}
    \cup {ArityScript(call) : call \in ArityCalls}

\* a function body reading a global variable
GlobalScript == <<"tyrt g = 5", "func f(a) {", "return_object g", "}", "print|[f(1)]">>

\* a class with a method, an instance of it, a call of the method
ClassMethodScript ==
  <<"class C {", "func m(self) {", "return_object 1", "}", "}",
    "tyrt o = C()", "print|[o.m()]">>

\* a class without methods, an instance of it, a call of a method
UndefinedMethodScript == <<"class C {", "}", "tyrt o = C()", "print|[o.foo()]">>

\* a class without methods, an instance of it, an operator applied to l and r
OperatorScript(l, op, r) ==
  <<"class C {", "}", "tyrt o = C()", "print|[" \o l \o " " \o op \o " " \o r \o "]">>
LeftOperands == {"o", "C()"}
Operators == {"+", "==", ">", "<"}
RightOperands == {"1", "o", "C()"}
OperatorScripts ==
  {OperatorScript(l, op, r) : l \in LeftOperands, op \in Operators, r \in RightOperands}

\* an assignment of expr to the constant c, after an assignment to v
ConstScript(expr) == <<"tyrt v = 1", "tyrt c = " \o expr, "print|[c]">>
ConstExprs == {"5", "v", "v + 1", "c", "zz", "1 + zz"}
\* an assignment to the constant c in the body of a function
ConstInBodyScript == <<"func f(a) {", "tyrt c = a", "}", "print|[f(1)]">>
ConstScripts == {ConstScript(expr) : expr \in ConstExprs} \cup {ConstInBodyScript}

\* interpreter.constants as the host has set it before run(): no line of a
\* script adds a constant
HostConstants(script) ==
  IF script \in ConstScripts THEN DictSet(EmptyDict, "c", IntV(7)) ELSE EmptyDict

\* the largest absolute value of the integers of the literal expressions
MaxInt == 2

\* str(n) of a natural number and of an integer
RECURSIVE NatText(_)
NatText(n) ==
  IF n < 10 THEN Sub(Digits, n + 1, n + 1)
  ELSE NatText(n \div 10) \o Sub(Digits, (n % 10) + 1, (n % 10) + 1)
IntText(n) == IF n < 0 THEN "-" \o NatText(0 - n) ELSE NatText(n)

\* a line, then the print of the expression a op b on decimal literals
LiteralScript(first, a, op, b) ==
  <<first, "print|[" \o IntText(a) \o " " \o op \o " " \o IntText(b) \o "]">>
FirstLines == {"/0 literals", "tyrt x = 9", "tyrt 1 = 5"}
Ints == (0 - MaxInt)..MaxInt
LiteralScripts ==
  {LiteralScript(first, a, op, b) : first \in FirstLines, a \in Ints, op \in {"+", ">"}, b \in Ints}

\* ", ".join(parts)
RECURSIVE Join(_)
Join(parts) ==
  IF parts = <<>> THEN ""
  ELSE IF Len(parts) = 1 THEN parts[1]
  ELSE parts[1] \o ", " \o Join(Tail(parts))

\* a line, the assignment of the sequence literal of the elements to xs, and
\* the print of the length of xs
ListaScript(first, elements) ==
  <<first, "tyrt xs = .lista(" \o Join(elements) \o ")", "print|[xs.len()]">>
\* the second of the first lines binds the variable whose name is the empty text
ListFirstLines == {"/0 list", "tyrt = 0"}
ListElements == {<<>>, <<"1">>, <<"1", "2">>, <<"2", "\"s\"", "1">>}
ListaScripts ==
  {ListaScript(first, elements) : first \in ListFirstLines, elements \in ListElements}

\* xs bound to the sequence of the elements, then xs.append(v) and xs.len()
AppendScript(elements, v) ==
  <<"tyrt = 0", "tyrt xs = .lista(" \o Join(elements) \o ")",
    "xs.append(" \o v \o ")", "print|[xs.len()]">>
AppendedTexts == {"9", "\"s\"", "xs"}
\* xs bound to the sequence of the elements, then xs.pop() and xs.len()
PopScript(elements) ==
  <<"tyrt = 0", "tyrt xs = .lista(" \o Join(elements) \o ")",
    "print|[xs.pop()]", "print|[xs.len()]">>
SequenceScripts ==
  {AppendScript(elements, v) : elements \in ListElements, v \in AppendedTexts}
    \cup {PopScript(elements) : elements \in ListElements}

\* a numeric-range loop over 3:5 that prints i and then raises the signal
ForSignalScript(signal) ==
  <<"entr_i i ty 3:5 {", "print|[i]", signal, "}", "print|[0]">>
\* a numeric-range loop over 3:5 that prints i and breaks at i == 4
ForBreakAtScript ==
  <<"entr_i i ty 3:5 {", "print|[i]", "BILHETE_NADA i == 4 {", "loop.break", "}",
    "}", "print|[0]">>
\* a pre-test loop on a true condition that breaks
WhileBreakScript == <<"/1 1 == 1 {", "loop.break", "print|[7]", "}", "print|[0]">>
LoopSignals == {"loop.break", "loop.continue"}
SignalScripts ==
  {ForSignalScript(signal) : signal \in LoopSignals}
    \cup {ForBreakAtScript, WhileBreakScript}

\* a line, then a terminator with no block open, then a line after it
StrayScript(first) == <<first, "}", "print|[1]">>
StrayFirstLines == {"/0 stray", "tyrt x = 1", "print|[2]"}
StrayScripts == {StrayScript(first) : first \in StrayFirstLines}

\* the assignment of the mapping literal with the contents to d, then a
\* line after it
DictScript(contents) == <<"tyrt d = #dicionario(" \o contents \o ")", "print|[1]">>
DictContents == {"", "1: 2", "\"a\": 1", "x + y", "f(1)", "a.b", "\"a.b\": 1", "1, 2.", "."}
DictScripts == {DictScript(contents) : contents \in DictContents}

\* the opening line of a construct (or a line that fails as one), a line
\* after it, then a terminator or another line, then a last line
CaptureScript(opener, line, last) == <<opener, line, last, "print|[2]">>
Openers ==
  {"Try {", "Except as e {", "Except {", "Now {", "entr_i i ty 1:2 {", "/1 1 == 2 {",
   "BILHETE_NADA 1 == 1 {", "BILHETE_NADA zz {", "class C {", "func f(a) {",
   "entr_i x", "Except x"}
CapturedLines == {"  tyrt x = 1  ", "func g() {", "Try {", "class D {", "loop.break"}
CaptureScripts ==
  {CaptureScript(opener, line, last) :
     opener \in Openers, line \in CapturedLines, last \in {"}", "print|[1]"}}

\* a function whose body holds the opening line of a Try, then its call
CaptureTwoScript == <<"func f(a) {", "  tyrt x = 1  ", "Try {", "}", "f(1)">>

\* a conditional whose condition calls a function that has the opening line
\* of a Try as its body
CondCallScript ==
  <<"func f(a) {", "Try {", "}", "BILHETE_NADA f(1) {", "print|[1]", "}", "print|[2]">>

\* a loop-control signal raised outside every loop: on a line of the script,
\* in the body of a called function, and in a function called by a function
EscapeTopScript(signal) == <<"print|[1]", signal, "print|[2]">>
EscapeCallScript(signal, call) ==
  <<"func f(a) {", "print|[a]", signal, "print|[9]", "}", call, "print|[2]">>
EscapeCalls == {"f(1)", "print|[f(1)]", "tyrt x = f(1)"}
EscapeNestedScript(signal) ==
  <<"func f(a) {", signal, "}", "func g(a) {", "tyrt y = f(a)", "print|[8]", "}",
    "g(1)", "print|[2]">>
EscapeScripts ==
  {EscapeTopScript(signal) : signal \in LoopSignals}
    \cup {EscapeCallScript(signal, call) : signal \in LoopSignals, call \in EscapeCalls}
    \cup {EscapeNestedScript(signal) : signal \in LoopSignals}

\* a line, then a read of self.x on a line of the script, where no receiver
\* instance is active, then a line after it
SelfScript(first, read) == <<first, read, "print|[2]">>
SelfFirstLines == {"/0 self", "tyrt x = 5", "tyrt self.x = 5"}
SelfReads == {"print|[self.x]", "tyrt y = self.x", "print|[self.x + 1]"}
SelfScripts == {SelfScript(first, read) : first \in SelfFirstLines, read \in SelfReads}

\* a construct-opening line that fails with no capture open, then a line
\* after it
FailingOpenerScript(header) == <<header, "print|[1]">>
MalformedHeaders ==
  {"entr_i x", "/1 1 == 1", "BILHETE_NADA 1 == 1", "class C", "func f {", "Except x"}
FailingConditions == {"BILHETE_NADA zz {", "BILHETE_NADA 1 + zz {"}
FailingOpenerScripts ==
  {FailingOpenerScript(header) : header \in MalformedHeaders \cup FailingConditions}

Scripts ==
  ForScripts \cup TryScripts \cup IfScripts \cup WhileScripts \cup FuncScripts
    \cup CallScripts \cup ArityScripts
    \cup {GlobalScript, ClassMethodScript, UndefinedMethodScript}
    \cup OperatorScripts
    \cup ConstScripts
    \cup LiteralScripts
    \cup ListaScripts \cup SequenceScripts
    \cup SignalScripts
    \cup StrayScripts
    \cup DictScripts
    \cup CaptureScripts
    \cup {CaptureTwoScript}
    \cup {CondCallScript}
    \cup EscapeScripts
    \cup SelfScripts
    \cup FailingOpenerScripts

\* the machine state of the operators, from the variables
Machine == [self |-> self, heap |-> heap, out |-> out]

\* self.execute_line(line) on the next line of the script
NextLine == self_execute_line(Machine, source_lines[_current_line_number + 1], None)

Init ==
  /\ source_lines \in Scripts
  /\ self = [InitMachine.self EXCEPT !.constants = HostConstants(source_lines)]
  /\ heap = InitMachine.heap
  /\ out = InitMachine.out
  /\ _current_line_number = 0
  /\ status = "running"
  /\ error = NoExc

\* the for loop of run has a next line
HasNextLine == status = "running" /\ _current_line_number < Len(source_lines)

\* the machine of result r becomes the state
Becomes(r) ==
  /\ self' = r.m.self
  /\ heap' = r.m.heap
  /\ out' = r.m.out

\* the line returned
Returned(r) ==
  /\ ~Failed(r)
  /\ Becomes(r)
  /\ _current_line_number' = _current_line_number + 1
  /\ UNCHANGED <<source_lines, status, error>>

\* except self.TyrtError as e
RaisedTyrtError(r) ==
  /\ Failed(r)
  /\ IsTyrtError(r.exc.cls)
  /\ Becomes(r)
  /\ _current_line_number' = _current_line_number + 1
  /\ status' = "unhandled"
  /\ error' = r.exc
  /\ UNCHANGED source_lines

\* except Exception as e
RaisedException(r) ==
  /\ Failed(r)
  /\ ~IsTyrtError(r.exc.cls)
  /\ r.exc # Hang
  /\ Becomes(r)
  /\ _current_line_number' = _current_line_number + 1
  /\ status' = "internal"
  /\ error' = r.exc
  /\ UNCHANGED source_lines

\* execute_line never returns
NeverReturned(r) ==
  /\ r.exc = Hang
  /\ _current_line_number' = _current_line_number + 1
  /\ status' = "hang"
  /\ UNCHANGED <<source_lines, self, heap, out, error>>

\* run: a line is executed and returns
RunLine == HasNextLine /\ Returned(NextLine)

\* run: a line raises a TyrtError, which is reported; the run ends
RunTyrtError == HasNextLine /\ RaisedTyrtError(NextLine)

\* run: a line raises another Exception, which is reported; the run ends
RunInternalError == HasNextLine /\ RaisedException(NextLine)

\* run: a line never returns
RunHang == HasNextLine /\ NeverReturned(NextLine)

\* run: the last line has been executed
RunEnd ==
  /\ status = "running"
  /\ _current_line_number = Len(source_lines)
  /\ status' = "finished"
  /\ UNCHANGED <<source_lines, self, heap, out, _current_line_number, error>>

Next == RunLine \/ RunTyrtError \/ RunInternalError \/ RunHang \/ RunEnd

Spec == Init /\ [][Next]_vars

(***************************************************************************)
(* B. The Try processor called on the buffers that two runs have left      *)
(***************************************************************************)
\* the lines of a run that captures the try-body, and of a run that captures
\* the except-body; each run ends at its '}' with every capture flag clear
TryRun(try_body) == <<"Try {">> \o try_body \o <<"}">>
ExceptRun(except_body) == <<"Except as e {">> \o except_body \o <<"}">>

TryBodyLines ==
  {"print|[1]", "tyrt x = zz", "foo bar", "func f {", "entr_i x", "loop.break",
   "loop.continue"}
TryBodies == UNION {[1..n -> TryBodyLines] : n \in 1..2}
ExceptBodies == {<<>>, <<"print|[e]">>, <<"print|[2]">>, <<"foo bar">>}

\* source_lines holds the lines of the first run followed by those of the
\* second; status tells what the host calls next
TryInit ==
  /\ \E try_body \in TryBodies, except_body \in ExceptBodies :
       source_lines = TryRun(try_body) \o ExceptRun(except_body)
  /\ self = InitMachine.self
  /\ heap = InitMachine.heap
  /\ out = InitMachine.out
  /\ _current_line_number = 0
  /\ status = "first run"
  /\ error = NoExc

\* the number of lines of the first run
FirstRunLength == CHOOSE k \in 1..Len(source_lines) :
                    source_lines[k] = "}" /\ \A j \in 1..(k - 1) : source_lines[j] # "}"

\* the lines of the run that the host starts next
RunLines ==
  IF status = "first run" THEN SubSeq(source_lines, 1, FirstRunLength)
  ELSE SubSeq(source_lines, FirstRunLength + 1, Len(source_lines))

\* the call of the host: self.run(lines), then self.run(lines), then
\* self.process_try_block()
HostCall ==
  Invoke(IF status = "idle" THEN "process_try_block" ELSE "run",
         IF status = "idle" THEN <<Machine>> ELSE <<Machine, RunLines>>)

\* run returned, having reported the error of its last line
Ran(r) ==
  /\ Becomes(r)
  /\ _current_line_number' = Len(RunLines)
  /\ status' = IF status = "first run" THEN "second run" ELSE "idle"
  /\ UNCHANGED <<source_lines, error>>

\* process_try_block returned
TryReturned(r) ==
  /\ ~Failed(r)
  /\ Becomes(r)
  /\ status' = "returned"
  /\ UNCHANGED <<source_lines, _current_line_number, error>>

\* process_try_block raised
TryRaised(r) ==
  /\ Failed(r)
  /\ Becomes(r)
  /\ status' = "raised"
  /\ error' = r.exc
  /\ UNCHANGED <<source_lines, _current_line_number>>

\* the host runs the lines of the next run
HostRuns == status \in {"first run", "second run"} /\ Ran(HostCall)

\* the host calls the Try processor, which returns
ProcessTryReturns == status = "idle" /\ TryReturned(HostCall)

\* the host calls the Try processor, which raises
ProcessTryRaises == status = "idle" /\ TryRaised(HostCall)

TryNext == HostRuns \/ ProcessTryReturns \/ ProcessTryRaises

TrySpec == TryInit /\ [][TryNext]_vars

(***************************************************************************)
(* C. The host either runs a script or drives the Try processor             *)
(***************************************************************************)
HostInit == Init \/ TryInit

\* whether a call is made next
CallsNext == HasNextLine \/ status \in {"first run", "second run", "idle"}

\* the call that the host or the for loop of run makes next, and its result
AnyCall ==
  IF ~CallsNext THEN Ok(Machine, NoneV)
  ELSE Invoke(IF status = "running" THEN "execute_line"
              ELSE IF status = "idle" THEN "process_try_block" ELSE "run",
              IF status = "running"
              THEN <<Machine, source_lines[_current_line_number + 1], None>>
              ELSE IF status = "idle" THEN <<Machine>> ELSE <<Machine, RunLines>>)

HostNext ==
  \/ \E r \in {AnyCall} :
       \/ HasNextLine /\ Returned(r)
       \/ HasNextLine /\ RaisedTyrtError(r)
       \/ HasNextLine /\ RaisedException(r)
       \/ HasNextLine /\ NeverReturned(r)
       \/ status \in {"first run", "second run"} /\ Ran(r)
       \/ status = "idle" /\ TryReturned(r)
       \/ status = "idle" /\ TryRaised(r)
  \/ RunEnd

HostSpec == HostInit /\ [][HostNext]_vars

(***************************************************************************)
(* The claims                                                              *)
(***************************************************************************)
\* the run has executed every line of the script
AtEnd == _current_line_number = Len(source_lines)

\* the run has not been ended by an error or by a line that never returns
NotHalted == status \in {"running", "finished"}

\* the output of the line after a construct, once the run has executed it
After(v) == IF AtEnd THEN <<v>> ELSE <<>>

\* what the body of a ForScript prints for the indices i..end
RECURSIVE ForOutput(_, _, _)
ForOutput(i, end, body) ==
  IF i > end THEN <<>>
  ELSE [k \in 1..Len(body) |-> IF body[k] = "print|[i]" THEN IntV(i) ELSE IntV(i + 1)]
         \o ForOutput(i + 1, end, body)

\* the bounds of a range text "s:e"
RangeStart(range) == ParseInt(Split(range, ":")[1])
RangeEnd(range) == ParseInt(Split(range, ":")[2])

\* C1: once the '}' of a numeric-range loop with start <= end and a non-empty
\* body has been executed, the body has been executed once per index from
\* start to end in ascending order with the loop variable bound to the index
\* (the output is 3, 4, 5 for 3:5 and print|[i]), the run goes on, and no
\* capture is active.
C1_ForExecutesBodyPerIndex ==
  \A range \in ForRanges, body \in ForBodies :
    (/\ RangeStart(range) <= RangeEnd(range)
     /\ body # <<>>
     /\ source_lines = ForScript(range, body)
     /\ _current_line_number >= Len(body) + 2)
    => /\ NotHalted
       /\ ~Capturing(self)
       /\ out = ForOutput(RangeStart(range), RangeEnd(range), body) \o After(IntV(0))

\* C2: in Try / raising line / Except as e / Now, the error is caught and bound
\* to e, the except body and then the finally body are executed, and the run
\* does not halt: the line after the construct is executed.
C2_TryCatchesAndContinues ==
  \A raising \in RaisingLines :
    source_lines = TryScript(raising)
    => /\ NotHalted
       /\ _current_line_number >= 9
          => /\ Len(out) >= 2
             /\ out[1].t = "exc"
             /\ out[2] = IntV(99)
             /\ "e" \in DOMAIN self.variables
             /\ self.variables["e"].t = "exc"
             /\ ~Capturing(self)
       /\ AtEnd => out[Len(out)] = IntV(5)

\* the condition of an IfScript holds of x = 1
ConditionHolds(condition) == condition \in {"x == 1", "x > 0"}

\* what the body of an IfScript prints
IfOutput(body) == [k \in 1..Len(body) |-> IF body[k] = "print|[7]" THEN IntV(7) ELSE IntV(8)]

\* C3: once the '}' of a conditional has been executed, the body lines have
\* been executed once each in order if the condition computed at the header
\* was true and not at all if it was false, and in both cases the run goes
\* on with no capture active and the buffer of the conditional empty.
C3_IfExecutesBodyWhenTrue ==
  \A condition \in IfConditions, body \in IfBodies :
    (source_lines = IfScript(condition, body) /\ _current_line_number >= Len(body) + 3)
    => /\ NotHalted
       /\ ~Capturing(self)
       /\ heap[self._current_if_block_lines].items = <<>>
       /\ out = (IF ConditionHolds(condition) THEN IfOutput(body) ELSE <<>>) \o After(IntV(9))

\* C3, the part that holds: with a false condition no body line is executed,
\* the run goes on, no capture is active and the buffer is empty.
C3_IfFalseSkipsBody ==
  \A condition \in IfConditions, body \in IfBodies :
    (/\ ~ConditionHolds(condition)
     /\ source_lines = IfScript(condition, body)
     /\ _current_line_number >= Len(body) + 3)
    => /\ NotHalted
       /\ ~Capturing(self)
       /\ heap[self._current_if_block_lines].items = <<>>
       /\ out = After(IntV(9))

\* the line is print|[f(...)] or f(...) for a registered function f
CallsFunction(line) ==
  LET l == Strip(line)
      expr == IF StartsWith(l, "print|[") THEN Strip(Sub(l, 8, Len(l) - 1)) ELSE l
      match == MatchCall(expr)
  IN match # <<>> /\ match[1] \in DOMAIN self.functions

\* C4: a line that calls a registered function leaves self.variables as it
\* was before the line, whether the call returns, raises an error or raises
\* a loop-control signal: no assignment to a bare name in the body and no
\* parameter binding is left in it. Nested: g(4) binds u to 4, calls f, whose
\* body binds u to 0, and then returns u plus the result of f, which is 9.
C4_CallLeavesVariables ==
  [][(HasNextLine /\ CallsFunction(source_lines[_current_line_number + 1]))
       => /\ self'.variables = self.variables
          /\ (source_lines = NestedCallScript /\ status' = "running")
               => out' = Append(out, IntV(9))]_vars

\* C4 witness: the call of h has raised an error in its body, after the body
\* assigned y, and the variables are those of before the call
C4_Witness ==
  /\ source_lines = CallErrorScript
  /\ AtEnd
  /\ error.cls = "VariableNotDefined"
  /\ DOMAIN self.variables = {"y"}
  /\ self.variables["y"] = IntV(7)

\* the body of a FuncScript
BodyOf(script) == SubSeq(script, 2, Len(script) - 2)

\* what print|[f(a)] prints for a body of BodyLines: the prints of the body
\* up to its first return_object line, then the result of the call
RECURSIVE CallOutput(_, _)
CallOutput(body, a) ==
  IF body = <<>> THEN <<NoneV>>
  ELSE CASE Head(body) = "print|[a]" -> <<IntV(a)>> \o CallOutput(Tail(body), a)
         [] Head(body) = "tyrt a = a + 1" -> CallOutput(Tail(body), a + 1)
         [] Head(body) = "return_object a + 1" -> <<IntV(a + 1)>>
         [] Head(body) = "return_object 0" -> <<IntV(0)>>

\* C5: the first return_object line of a function body ends the body: the
\* call yields the value of its expression in the call-local scope and no
\* later body line is executed; a body without such a line yields None.
C5_ReturnEndsBody ==
  (source_lines \in FuncScripts /\ AtEnd)
    => NotHalted /\ out = CallOutput(BodyOf(source_lines), 1)

\* C5 witness: a body that prints, returns, and has a print after the return
C5_Witness ==
  /\ source_lines = FuncScript(<<"print|[a]", "return_object a + 1", "print|[a]">>)
  /\ AtEnd
  /\ out = <<IntV(1), IntV(2)>>

\* C6: a call of a registered function with another number of arguments than
\* it has parameters fails with InvalidMethodCall and executes no line of the
\* body, in an assignment, in print|[...] and as a bare-call line.
C6_ArityMismatchIsInvalidMethodCall ==
  (source_lines \in ArityScripts /\ AtEnd)
    => error.cls = "InvalidMethodCall" /\ out = <<>>

\* C6, the part that holds: in an assignment and in print|[...]
C6_ArityMismatchInAssignmentAndPrint ==
  (source_lines \in ArityScripts /\ AtEnd /\ MatchCall(source_lines[Len(source_lines)]) = <<>>)
    => status = "unhandled" /\ error.cls = "InvalidMethodCall" /\ out = <<>>

\* C7: in the body of a called function a name bound in the global variables
\* that is no parameter evaluates to its global value.
C7_BodySeesGlobals ==
  (source_lines = GlobalScript /\ AtEnd) => NotHalted /\ out = <<IntV(5)>>

\* C8: in class C { func m(self) { ... } }, the first '}' registers m in the
\* pending method table of C, not in the functions, and leaves the class
\* capture open; the second '}' registers the table under C and ends the
\* capture without error; an instance made by C() then has the method m.
C8_ClassRegistersMethod ==
  source_lines = ClassMethodScript
    => /\ NotHalted
       /\ _current_line_number = 4
          => /\ "m" \in DOMAIN self._class_methods
             /\ "m" \notin DOMAIN self.functions
             /\ self._in_class_block
       /\ _current_line_number >= 5
          => /\ "C" \in DOMAIN self.classes
             /\ "m" \in DOMAIN self.classes["C"]
             /\ ~Capturing(self)
       /\ AtEnd => out = <<IntV(1)>>

\* C9: a dotted call of a method that the class of the receiver instance does
\* not define fails with InvalidMethodCall.
C9_UndefinedMethodIsInvalidMethodCall ==
  (source_lines = UndefinedMethodScript /\ AtEnd)
    => status = "unhandled" /\ error.cls = "InvalidMethodCall"

\* the text l op r is taken by the rule of calls, which eval_expr tries first
TakenAsCall(l, op, r) == MatchCall(l \o " " \o op \o " " \o r) # <<>>

\* C10: l op r, for op among + == > <, with l an instance of a class without
\* the overload of op, fails with NotImplementedError, and the native
\* operator is not applied; this for every l and r.
C10_MissingOverloadAnyOperands ==
  \A l \in LeftOperands, op \in Operators, r \in RightOperands :
    (source_lines = OperatorScript(l, op, r) /\ AtEnd)
      => status = "unhandled" /\ error.cls = "NotImplementedError" /\ out = <<>>

\* C10, amended: the same when the text l op r is not taken by the rule of
\* calls (it is not a name, '(' ... ')' as a whole) and r evaluates.
C10_MissingOverload ==
  \A l \in LeftOperands, op \in Operators, r \in RightOperands :
    (source_lines = OperatorScript(l, op, r) /\ AtEnd /\ ~TakenAsCall(l, op, r))
      => status = "unhandled" /\ error.cls = "NotImplementedError" /\ out = <<>>

\* C10 witness: C() > o has failed with NotImplementedError
C10_Witness ==
  /\ source_lines = OperatorScript("C()", ">", "o")
  /\ AtEnd
  /\ error.cls = "NotImplementedError"

\* the target and the expression of an assignment line "tyrt <target> = <expr>"
TargetOf(line) == Strip(Split1(Strip(From(Strip(line), 6)), "=")[1])
ExprOf(line) == Split1(Strip(From(Strip(line), 6)), "=")[2]

\* the line is executed now and assigns to a bare name that is a constant
AssignsConstant(line) ==
  /\ HasNextLine
  /\ ~Capturing(self)
  /\ StartsWith(Strip(line), "tyrt ")
  /\ Contains(line, "=")
  /\ TargetOf(line) \in DOMAIN self.constants

\* the step failed with ConstantReassignment and changed neither mapping
FailsAsConstantReassignment ==
  /\ status' = "unhandled"
  /\ error'.cls = "ConstantReassignment"
  /\ self'.variables = self.variables
  /\ self'.constants = self.constants

\* C11: where c is a constant, the line tyrt c = <expr> fails with
\* ConstantReassignment whatever the expression is, and leaves the variables
\* and the constants unchanged.
C11_ConstantReassignmentAnyExpr ==
  [][AssignsConstant(source_lines[_current_line_number + 1])
       => FailsAsConstantReassignment]_vars

\* C11, amended: the same when the expression evaluates (it is evaluated
\* before the target is looked up in the constants); the mappings are
\* unchanged in every case, and so they are when the assignment is a line of
\* a function body.
C11_ConstantReassignment ==
  [][/\ AssignsConstant(source_lines[_current_line_number + 1])
        => /\ self'.variables = self.variables
           /\ self'.constants = self.constants
           /\ ~Failed(self_eval_expr(Machine, ExprOf(source_lines[_current_line_number + 1]),
                                     None, None))
                => FailsAsConstantReassignment
     /\ (source_lines = ConstInBodyScript /\ _current_line_number = 3)
        => FailsAsConstantReassignment]_vars

\* C11 witness: tyrt c = v + 1 has failed with ConstantReassignment
C11_Witness ==
  /\ source_lines = ConstScript("v + 1")
  /\ _current_line_number = 2
  /\ error.cls = "ConstantReassignment"
  /\ self.constants["c"] = IntV(7)
  /\ DOMAIN self.variables = {"v"}

\* the value the claim gives to a op b
LiteralValue(a, op, b) == IF op = "+" THEN IntV(a + b) ELSE BoolV(a > b)

\* C12: for all integers a and b, whatever assignment lines were executed
\* before, <a> + <b> yields a+b and <a> > <b> yields the boolean a>b, on the
\* decimal literals of a and b.
C12_LiteralArithmetic ==
  \A first \in FirstLines, a \in Ints, op \in {"+", ">"}, b \in Ints :
    (source_lines = LiteralScript(first, a, op, b) /\ AtEnd)
      => NotHalted /\ out = <<LiteralValue(a, op, b)>>

\* C12, the part that holds: the same where no variable is named by the
\* text of one of the two literals.
C12_LiteralArithmeticUnshadowed ==
  \A first \in FirstLines, a \in Ints, op \in {"+", ">"}, b \in Ints :
    (/\ source_lines = LiteralScript(first, a, op, b)
     /\ AtEnd
     /\ {IntText(a), IntText(b)} \cap DOMAIN self.variables = {})
      => NotHalted /\ out = <<LiteralValue(a, op, b)>>

\* the values of the element texts of ListElements
ElementValues(elements) ==
  [k \in 1..Len(elements) |->
     IF elements[k] = "\"s\"" THEN StrV("s") ELSE IntV(ParseInt(elements[k]))]

\* the items of the sequence that xs is bound to
ItemsOfXs == heap[self.variables["xs"].v].items

\* xs is bound to a sequence
XsIsSequence == "xs" \in DOMAIN self.variables /\ self.variables["xs"].t = "list"

\* C13: the sequence literal .lista(e1, ..., en), n >= 0, of elements that
\* evaluate yields a new sequence of the values of e1..en in that order.
C13_SequenceLiteral ==
  \A first \in ListFirstLines, elements \in ListElements :
    (source_lines = ListaScript(first, elements) /\ _current_line_number >= 2)
      => NotHalted /\ XsIsSequence /\ ItemsOfXs = ElementValues(elements)

\* C13, the part that holds: the same in the states where a variable is
\* named by the empty text, which is what the literal evaluates as receiver.
C13_SequenceLiteralWithEmptyName ==
  \A elements \in ListElements :
    (source_lines = ListaScript("tyrt = 0", elements) /\ _current_line_number >= 2)
      => /\ NotHalted /\ XsIsSequence /\ ItemsOfXs = ElementValues(elements)
         /\ self.variables["xs"].v = Len(heap)
         /\ AtEnd => out = <<IntV(Len(elements))>>

\* the value of an appended text, xs being the sequence itself
AppendedValue(v) ==
  IF v = "xs" THEN self.variables["xs"] ELSE IF v = "9" THEN IntV(9) ELSE StrV("s")

C15_BreakExitsLoop ==
  /\ (source_lines = ForSignalScript("loop.break") /\ _current_line_number >= 4)
       => NotHalted /\ ~Capturing(self) /\ out = <<IntV(3)>> \o After(IntV(0))
  /\ (source_lines = ForSignalScript("loop.continue") /\ _current_line_number >= 4)
       => /\ NotHalted /\ ~Capturing(self)
          /\ out = <<IntV(3), IntV(4), IntV(5)>> \o After(IntV(0))
  /\ (source_lines = ForBreakAtScript /\ _current_line_number >= 6)
       => NotHalted /\ ~Capturing(self) /\ out = <<IntV(3), IntV(4)>> \o After(IntV(0))
  /\ (source_lines = WhileBreakScript /\ _current_line_number >= 4)
       => NotHalted /\ ~Capturing(self) /\ out = After(IntV(0))

\* the error class of the first line of a try-body of TryBodies that fails,
\* "" when none does
RECURSIVE FirstFailure(_)
FirstFailure(body) ==
  IF body = <<>> THEN ""
  ELSE IF Head(body) = "print|[1]" THEN FirstFailure(Tail(body))
  ELSE IF Head(body) = "tyrt x = zz" THEN "VariableNotDefined"
  ELSE IF Head(body) = "foo bar" THEN "LineNoRecognized"
  ELSE IF Head(body) = "loop.break" THEN "LoopBreakTyrt"
  ELSE IF Head(body) = "loop.continue" THEN "LoopContinueTyrt"
  ELSE "InvalidSyntax"

\* C16: the Try processor catches only the errors of the runtime-error
\* umbrella: when a line of the try-body fails with a syntax error or an
\* unrecognized-line error, the except-body is not executed, no error
\* variable is bound, and an error of that kind leaves the Try processor.
C16_TryCatchesOnlyRuntimeErrors ==
  \A try_body \in TryBodies, except_body \in ExceptBodies :
    (/\ source_lines = TryRun(try_body) \o ExceptRun(except_body)
     /\ FirstFailure(try_body) \in {"LineNoRecognized", "InvalidSyntax"}
     /\ status \in {"returned", "raised"})
    => /\ status = "raised"
       /\ error.cls = FirstFailure(try_body)
       /\ "e" \notin DOMAIN self.variables
       /\ Len(out) <= 1

\* C16, what the code does: a syntax or unrecognized-line error of the
\* try-body reaches the Try processor wrapped as a runtime error and is
\* caught; with a non-empty except-body the error variable is bound to it and
\* the except-body is executed.
C16_TryCatchesWrappedErrors ==
  \A try_body \in TryBodies, except_body \in ExceptBodies :
    (/\ source_lines = TryRun(try_body) \o ExceptRun(except_body)
     /\ FirstFailure(try_body) \in {"LineNoRecognized", "InvalidSyntax"}
     /\ status \in {"returned", "raised"})
    => IF except_body = <<>>
       THEN status = "returned" /\ "e" \notin DOMAIN self.variables
       ELSE /\ self.variables["e"] =
                 ExcV([cls |-> "TyrtRuntimeError", inner |-> FirstFailure(try_body)])
            /\ IF except_body = <<"foo bar">>
               THEN status = "raised" /\ error.cls = "TyrtRuntimeError"
               ELSE /\ status = "returned"
                    /\ out[Len(out)] =
                         IF except_body = <<"print|[2]">> THEN IntV(2)
                         ELSE self.variables["e"]

\* the run is about to execute the terminator of a StrayScript
AtStrayTerminator ==
  /\ \E first \in StrayFirstLines : source_lines = StrayScript(first)
  /\ _current_line_number = 1
  /\ status = "running"

\* C17: a terminator line '}' executed while no capture is active fails with
\* a syntax error (InvalidSyntax, not the unrecognized-line error) and leaves
\* the whole interpreter state unchanged.
C17_StrayTerminatorIsSyntaxError ==
  [][AtStrayTerminator
       => /\ ~Capturing(self)
          /\ status' \in {"unhandled", "internal"}
          /\ error'.cls = "InvalidSyntax"
          /\ self' = self /\ heap' = heap /\ out' = out]_vars

\* C17, what the code does: the terminator fails with the unrecognized-line
\* error, which run reports as an internal error, and the interpreter state
\* is unchanged.
C17_StrayTerminatorIsUnrecognizedLine ==
  [][AtStrayTerminator
       => /\ ~Capturing(self)
          /\ status' = "internal"
          /\ error'.cls = "LineNoRecognized"
          /\ self' = self /\ heap' = heap /\ out' = out]_vars

\* C18: evaluating a mapping literal #dicionario(<contents>) yields a fresh
\* empty mapping for every textual contents, of any characters, and never
\* fails.
C18_MappingLiteralAnyContents ==
  \A contents \in DictContents :
    (source_lines = DictScript(contents) /\ _current_line_number >= 1)
      => /\ NotHalted
         /\ DOMAIN self.variables = {"d"}
         /\ self.variables["d"] = DictV(Len(InitMachine.heap) + 1)
         /\ heap[self.variables["d"].v] = NewDict

\* C18, the part that holds: the same for the contents without a '.'.
C18_MappingLiteralWithoutDot ==
  \A contents \in DictContents :
    (/\ source_lines = DictScript(contents)
     /\ ~Contains(contents, ".")
     /\ _current_line_number >= 1)
      => /\ NotHalted
         /\ DOMAIN self.variables = {"d"}
         /\ self.variables["d"] = DictV(Len(InitMachine.heap) + 1)
         /\ heap[self.variables["d"].v] = NewDict

\* the capture flags of the interpreter that are set
FlagsSet ==
  {flag \in {"_in_if_block", "_in_for_block", "_in_while_block", "_in_func_block",
             "_in_class_block", "_in_try_block", "_in_except_block", "_in_now_block"} :
     self[flag]}

\* C19: in every reachable state of the interpreter, after any sequence of
\* executed lines, lines that fail included, at most one of the eight capture
\* flags is set.
C19_AtMostOneCapture == Cardinality(FlagsSet) <= 1

\* C19 witness: a conditional whose condition fails has ended the run with
\* its capture flag set, and no other
C19_Witness ==
  /\ \E line \in CapturedLines, last \in {"}", "print|[1]"} :
       source_lines = CaptureScript("BILHETE_NADA zz {", line, last)
  /\ status = "unhandled"
  /\ FlagsSet = {"_in_if_block"}

\* the buffer of the open construct
OpenBuffer ==
  IF self._in_if_block THEN self._current_if_block_lines
  ELSE IF self._in_for_block THEN self._for_block
  ELSE IF self._in_while_block THEN self._while_block
  ELSE IF self._in_func_block \/ self._in_class_block THEN self._func_block
  ELSE IF self._in_try_block THEN self._try_block
  ELSE IF self._in_except_block THEN self._except_block
  ELSE self._now_block

\* the line that run executes next, trimmed
NextTrimmed == Strip(source_lines[_current_line_number + 1])

\* C20: while a capture is open, executing a line that is not the terminator,
\* not blank and not a comment appends the trimmed line to the end of the
\* buffer of the open construct and changes nothing else: the line is not
\* executed, variables, constants, functions, classes and the capture flags
\* are unchanged, even when the line has the opening syntax of a construct.
C20_CaptureAppendsLine ==
  [][(/\ HasNextLine
      /\ Capturing(self)
      /\ NextTrimmed # "}"
      /\ NextTrimmed # ""
      /\ ~StartsWith(NextTrimmed, "/0"))
     => /\ status' = "running"
        /\ self' = self
        /\ out' = out
        /\ heap' = [heap EXCEPT ![OpenBuffer].items = Append(@, NextTrimmed)]]_vars

\* C20 witness: a function capture holds the trimmed line and the opening
\* line of a Try after it, and only the function flag is set
C20_Witness ==
  /\ source_lines = <<"func f(a) {", "  tyrt x = 1  ", "Try {", "}", "f(1)">>
  /\ _current_line_number = 3
  /\ heap[self._func_block].items = <<"tyrt x = 1", "Try {">>
  /\ FlagsSet = {"_in_func_block"}
  /\ DOMAIN self.variables = {}

\* the exception class of a loop-control signal
SignalClass(signal) ==
  IF signal = "loop.break" THEN "LoopBreakTyrt" ELSE "LoopContinueTyrt"

\* what the print lines before the first failing line of a try-body print
RECURSIVE PrintsBefore(_)
PrintsBefore(body) ==
  IF body = <<>> \/ Head(body) # "print|[1]" THEN <<>>
  ELSE <<IntV(1)>> \o PrintsBefore(Tail(body))

\* C21: a loop-control signal is never treated as an engine error: body
\* execution re-raises it unchanged (not wrapped into a runtime error), the
\* Try processor does not catch it (the except-body is not executed and no
\* error variable is bound), and raised outside every loop it reaches the
\* top level as a failure that is not an engine error and halts the run.
C21_SignalIsNotAnEngineError ==
  /\ \A signal \in LoopSignals :
       /\ (source_lines = EscapeTopScript(signal) /\ _current_line_number >= 2)
            => /\ status = "internal"
               /\ error = Exc(SignalClass(signal))
               /\ _current_line_number = 2
               /\ out = <<IntV(1)>>
       /\ \A call \in EscapeCalls :
            (source_lines = EscapeCallScript(signal, call) /\ _current_line_number >= 6)
              => /\ status = "internal"
                 /\ error = Exc(SignalClass(signal))
                 /\ _current_line_number = 6
                 /\ out = <<IntV(1)>>
                 /\ DOMAIN self.variables = {}
       /\ (source_lines = EscapeNestedScript(signal) /\ _current_line_number >= 8)
            => /\ status = "internal"
               /\ error = Exc(SignalClass(signal))
               /\ _current_line_number = 8
               /\ out = <<>>
               /\ DOMAIN self.variables = {}
  /\ \A try_body \in TryBodies, except_body \in ExceptBodies :
       (/\ source_lines = TryRun(try_body) \o ExceptRun(except_body)
        /\ FirstFailure(try_body) \in {"LoopBreakTyrt", "LoopContinueTyrt"}
        /\ status \in {"returned", "raised"})
       => /\ status = "raised"
          /\ error = Exc(FirstFailure(try_body))
          /\ "e" \notin DOMAIN self.variables
          /\ out = PrintsBefore(try_body)

\* C21 witness: the Try processor has been left by the break signal of its
\* try-body, after the print before it and without the except-body
C21_Witness ==
  /\ source_lines = TryRun(<<"print|[1]", "loop.break">>) \o ExceptRun(<<"print|[e]">>)
  /\ status = "raised"
  /\ error = Exc("LoopBreakTyrt")
  /\ out = <<IntV(1)>>
  /\ DOMAIN self.variables = {}

\* C22: in every reachable state of the interpreter, evaluating an expression
\* self.<name> while no receiver instance is active fails; it never yields a
\* value.
C22_SelfWithoutReceiverFails ==
  \A first \in SelfFirstLines, read \in SelfReads :
    (source_lines = SelfScript(first, read) /\ _current_line_number >= 2)
      => /\ status \in {"unhandled", "internal"}
         /\ _current_line_number = 2
         /\ out = <<>>
         /\ "y" \notin DOMAIN self.variables

\* C22, the part that holds: the read fails with VariableNotDefined in the
\* states where no variable is named by the text self.x.
C22_SelfWithoutReceiverAndVariableFails ==
  \A first \in SelfFirstLines \ {"tyrt self.x = 5"}, read \in SelfReads :
    (source_lines = SelfScript(first, read) /\ _current_line_number >= 2)
      => /\ status = "unhandled"
         /\ error.cls = "VariableNotDefined"
         /\ _current_line_number = 2
         /\ out = <<>>
         /\ "y" \notin DOMAIN self.variables

\* C23: a construct-opening line that fails while no capture is open (a
\* malformed entr_i, /1, BILHETE_NADA, class, func or Except header, or an
\* evaluation error in the condition of a BILHETE_NADA header) leaves no
\* capture flag set, so that a line executed next is executed, not buffered.
C23_FailingOpenerLeavesIdle ==
  \A header \in MalformedHeaders \cup FailingConditions :
    (source_lines = FailingOpenerScript(header) /\ _current_line_number >= 1)
      => /\ status \in {"unhandled", "internal"}
         /\ _current_line_number = 1
         /\ ~Capturing(self)

\* C23, the part that holds: a malformed header fails with InvalidSyntax and
\* leaves no capture flag set.
C23_MalformedHeaderLeavesIdle ==
  \A header \in MalformedHeaders :
    (source_lines = FailingOpenerScript(header) /\ _current_line_number >= 1)
      => /\ status = "internal"
         /\ error.cls = "InvalidSyntax"
         /\ _current_line_number = 1
         /\ ~Capturing(self)

====
